---- MODULE Spec2Model ----
(***************************************************************************)
(* A model of the per-room relay of WSNet2 (server/game/room.go and        *)
(* server/game/peer.go).                                                   *)
(*                                                                         *)
(* SpecRoom: the Room actor.  One action per message handler of            *)
(* Room.dispatch, one for the goroutine that sendTo starts to remove a     *)
(* client whose Send failed, one for the message loop leaving its select   *)
(* on a closed done channel.  A loop iteration (updateLastMsg, dispatch) is *)
(* one step, except that it is split between the test and the write of     *)
(* updateLastMsg while a removal goroutine exists: updateLastMsg runs       *)
(* without muClients, so that goroutine can run in between.                 *)
(***************************************************************************)
EXTENDS Integers, Sequences, FiniteSets, TLC

\* ------------------------------------------------------------------ bounds
\* Client ids that take part in a run.
ClientIDs == {"a", "b", "c"}
\* The id of the client that creates the room.
CreatorIDs == {"a"}
\* The id of a message that has no client as its sender (control plane).
NoID == ""
\* Number of Client objects NewPlayer/NewWatcher construct in a run.
MaxClients == 3
\* The clock (time.Now in milliseconds) runs from 0 to MaxNow.
MaxNow == 1
\* Number of removal goroutines of sendTo that wait for muClients at a time.
MaxPending == 1
MaxEvents == 6
MaxSent == 3
EventBufSize == 3
\* RoomInfo.MaxPlayers the room is created with.
InitMaxPlayers == 2
\* A nil *Client.
Nil == 0

Handles == 1..MaxClients
MsgSeqs == {1, 2}
NodeCounts == {1, 2}
DataSet == {"d"}
\* MsgTargets.Targets: one present or absent id, two ids, one id twice.
TargetLists == {<<"b">>, <<"c", "b">>, <<"a", "c">>, <<"b", "b">>}

\* ------------------------------------------------------------------ helpers
Range(f) == {f[k] : k \in DOMAIN f}

EmptyDict == [k \in {} |-> ""]

\* m[k] = v of a Go map
MapSet(m, k, v) == [x \in (DOMAIN m) \cup {k} |-> IF x = k THEN v ELSE m[x]]

\* delete(m, k) of a Go map
MapDelete(m, k) == [x \in (DOMAIN m) \ {k} |-> m[x]]

SeqRemoveAtKeepsAll(s, i) == s

\* append(s[:i], s[i+1:]...)
SeqRemoveAt(s, i) == [j \in 1..(Len(s) - 1) |-> IF j < i THEN s[j] ELSE s[j + 1]]

\* The payloads of MsgRoomProp that clients send in a run.
RoomPropPayloads ==
  { [name |-> "grow", Visible |-> TRUE, Joinable |-> TRUE, Watchable |-> TRUE,
     SearchGroup |-> 1, MaxPlayer |-> 3, ClientDeadline |-> 20,
     PublicProps |-> [k \in {"k"} |-> "v"], PrivateProps |-> [k \in {"k"} |-> "v"]],
    [name |-> "shrink", Visible |-> FALSE, Joinable |-> FALSE, Watchable |-> FALSE,
     SearchGroup |-> 0, MaxPlayer |-> 1, ClientDeadline |-> 0,
     PublicProps |-> [k \in {"k"} |-> ""], PrivateProps |-> EmptyDict] }

\* ------------------------------------------------------------------ state
VARIABLES
  clients,      \* the Client objects constructed so far: handle -> fields
  players,      \* Room.players: id -> handle
  watchers,     \* Room.watchers: id -> handle
  master,       \* Room.master: handle, Nil before msgCreate
  masterOrder,  \* Room.masterOrder
  lastMsg,      \* Room.lastMsg: id -> time of the last message
  info,         \* Room.RoomInfo
  deadline,     \* Room.deadline (seconds)
  publicProps,  \* Room.publicProps
  privateProps, \* Room.privateProps
  done,         \* Room.done is closed
  crashed,      \* the process panicked
  loop,         \* where Room.MsgLoop is: "running", "exited", or "blocked"
                \* (msgCreate failed: NewRoom drops the room, no message follows)
  recv,         \* the message MsgLoop took from msgCh and has not dispatched
  pending,      \* clients whose removal goroutine (sendTo) has not run yet
  now,          \* the clock
  since         \* history: id -> handle of the Client that began its occupancy

VARIABLES
  peer,         \* the Peer of one client: evSeqNum, closed, and how it was made
  evbuf,        \* that client's event buffer (RingBuf) and the events written to it
  wire          \* the regular events the Peer wrote to its socket

peerVars == <<peer, evbuf, wire>>

roomFields == <<clients, players, watchers, master, masterOrder, lastMsg, info, deadline,
                    publicProps, privateProps, done, crashed, loop, recv, pending, now, since>>

VARIABLES
  sent          \* per Client, the events handed to its Send with the sequence
                \* numbers its event buffer gives them (kept in SpecSent only)

VARIABLES
  msgCh,        \* Room.msgCh: the messages of clients that wait in the channel
  wgClient,     \* Room.wgClient: the counter of the wait group
  inRepo,       \* the Repository holds the room
  caller,       \* per Client, where its goroutine is: "none" (not started),
                \* "idle", "sending" (inside Room.SendMessage) or "exited"
  waiter        \* the goroutine of drainMsg: "none", "waiting" (in
                \* wgClient.Wait), "sending" (ch <- struct{}{}) or "done"
                \* (these five are kept in SpecDrain only)

drainVars == <<msgCh, wgClient, inRepo, caller, waiter>>

VARIABLES
  chRoomInfo,   \* Room.chRoomInfo: the number of notifications in the channel
  lastRoomInfo, \* Room.lastRoomInfo: the RoomInfo of the n-th call of
                \* updateRoomInfo, as the number n
  updater       \* the goroutine roomInfoUpdater: where it is (pc), its
                \* snapshot ri, and what it has written so far
                \* (these three are kept in SpecInfo only)

infoVars == <<chRoomInfo, lastRoomInfo, updater>>

VARIABLES
  codec,        \* a call of the binary package: its input and what it returned
                \* (kept in SpecCodec only)
  reader        \* the goroutine Peer.MsgLoop of the Peer: where it is, the
                \* channels it selects on and what it did when it ended
                \* (kept in SpecRead only)

VARIABLES
  socket        \* the frames the Peer wrote to its socket, in order, close
                \* frames included (kept in SpecSocket only)

frameVars == <<codec, reader, socket>>

vars == <<clients, players, watchers, master, masterOrder, lastMsg, info, deadline,
          publicProps, privateProps, done, crashed, loop, recv, pending, now, since,
          peer, evbuf, wire, sent, msgCh, wgClient, inRepo, caller, waiter,
          chRoomInfo, lastRoomInfo, updater, codec, reader, socket>>

NoPeer == [exists |-> FALSE, lastEvSeq |-> 0, evSeqNum |-> 0, closed |-> FALSE,
           closeCode |-> "", closeMsg |-> "", stopped |-> FALSE]

\* No call of the binary package was made.
NoCall == [op |-> "none", data |-> << >>, seqNum |-> 0, err |-> FALSE,
           kind |-> "", etype |-> 0, payload |-> << >>, seq |-> 0]

\* Peer.MsgLoop before NewPeer starts it.
NoReader == [pc |-> "none"]

NoRecv == [id |-> NoID, ok |-> FALSE, some |-> FALSE]

NoOut == [h \in Handles |-> << >>]

Init ==
  /\ clients = << >>
  /\ players = EmptyDict
  /\ watchers = EmptyDict
  /\ master = Nil
  /\ masterOrder = << >>
  /\ lastMsg = EmptyDict
  /\ info = [Visible |-> TRUE, Joinable |-> TRUE, Watchable |-> TRUE, SearchGroup |-> 0,
             MaxPlayers |-> InitMaxPlayers, Players |-> 1, Watchers |-> 0,
             PublicProps |-> EmptyDict, PrivateProps |-> EmptyDict]
  /\ deadline = 10
  /\ publicProps = EmptyDict
  /\ privateProps = EmptyDict
  /\ done = FALSE
  /\ crashed = FALSE
  /\ loop = "running"
  /\ recv = NoRecv
  /\ pending = {}
  /\ now = 0
  /\ since = EmptyDict
  /\ peer = NoPeer
  /\ evbuf = [evs |-> << >>, last |-> 0]
  /\ wire = << >>
  /\ sent = [h \in Handles |-> << >>]
  /\ msgCh = << >>
  /\ wgClient = 0
  /\ inRepo = TRUE
  /\ caller = [h \in Handles |-> "none"]
  /\ waiter = "none"
  /\ chRoomInfo = 0
  /\ lastRoomInfo = 0
  /\ updater = [pc |-> "select", ri |-> 0, written |-> 0, writes |-> 0, atEnd |-> 0]
  /\ codec = NoCall
  /\ reader = NoReader
  /\ socket = << >>

\* ------------------------------------------------------------------ events
Ev(type, seq, id, id2, body, ids) ==
  [type |-> type, seq |-> seq, id |-> id, id2 |-> id2, body |-> body, ids |-> ids]

NewEvJoined(cid) == Ev("EvJoined", 0, cid, NoID, "", << >>)

NewEvRejoinedAsJoined(cid) == Ev("EvJoined", 0, cid, NoID, "", << >>)

NewEvRejoined(cid) == Ev("EvRejoined", 0, cid, NoID, "", << >>)

NewEvLeft(cid, masterId, cause) == Ev("EvLeft", 0, cid, masterId, cause, << >>)

NewEvRoomProp(cid, payload) == Ev("EvRoomProp", 0, NoID, NoID, payload.name, << >>)

NewEvMasterSwitched(cid, masterId) == Ev("EvMasterSwitched", 0, masterId, NoID, "", << >>)

NewEvMessage(cid, body) == Ev("EvMessage", 0, cid, NoID, body, << >>)

NewEvSucceeded(seq) == Ev("EvSucceeded", seq, NoID, NoID, "", << >>)

NewEvPermissionDenied(seq, payload) == Ev("EvPermissionDenied", seq, NoID, NoID, payload, << >>)

NewEvTargetNotFound(seq, cliIds, payload) ==
  Ev("EvTargetNotFound", seq, NoID, NoID, payload, cliIds)

\* ------------------------------------------------------------------ room state as a value
\* The room's fields as one record, so that the helpers a handler calls
\* (sendTo, broadcast, removeClient) compose as they do in the code.  out
\* collects the events the handler hands to each Client's Send, produced the
\* events it constructs, in order; reply is what it sends on the reply
\* channels of a control-plane message, in order.
\* lm is lastMsg after updateLastMsg of the message being dispatched.
Cur(lm) ==
  [clients |-> clients, players |-> players, watchers |-> watchers, master |-> master,
   masterOrder |-> masterOrder, lastMsg |-> lm, info |-> info, deadline |-> deadline,
   publicProps |-> publicProps, privateProps |-> privateProps, done |-> done,
   crashed |-> crashed, pending |-> pending, since |-> since,
   out |-> NoOut, produced |-> << >>, reply |-> << >>,
   lock |-> "none", by |-> "MsgLoop", writes |-> << >>, sends |-> {}]

\* muClients as the running code holds it: "none", "R" (RLock) or "W" (Lock).
Lock(st) == [st EXCEPT !.lock = "W"]

RLock(st) == [st EXCEPT !.lock = "R"]

Unlock(st) == [st EXCEPT !.lock = "none"]

RUnlock(st) == [st EXCEPT !.lock = "none"]

\* A write to the map players or watchers: writes records the mode in which
\* muClients is held and the goroutine that writes.
WriteMap(st, map, op) ==
  [st EXCEPT !.writes = Append(@, [map |-> map, op |-> op, lock |-> st.lock, by |-> st.by])]

\* A send on a channel: ch <- v outside a select.  mayBlock: the channel can
\* be full (a reply channel has room for the one reply of its message).
ChanSend(st, ch, mayBlock) ==
  [st EXCEPT !.sends = @ \cup {[ch |-> ch, lock |-> st.lock, mayBlock |-> mayBlock]}]

IDOf(st, c) == st.clients[c].id

Members(st) == Range(st.players) \cup Range(st.watchers)

\* Client.Send fails for the clients of F (the Client is not part of src/).
\* An event is constructed (produced) when it is first handed to sendTo or
\* broadcast.
Produce(st, ev) ==
  IF \E i \in 1..Len(st.produced) : st.produced[i] = ev
  THEN st
  ELSE [st EXCEPT !.produced = Append(@, ev)]

sendToFront(st, c, ev, F) ==
  [Produce(st, ev) EXCEPT !.out[c] = <<ev>> \o @,
                          !.pending = IF c \in F THEN @ \cup {c} ELSE @]

sendTo(st, c, ev, F) ==
  [Produce(st, ev) EXCEPT !.out[c] = Append(@, ev),
                          !.pending = IF c \in F THEN @ \cup {c} ELSE @]

broadcastToMasterOnly(st, ev, F) == sendTo(st, st.master, ev, F)

broadcast(st, ev, F) ==
  [Produce(st, ev) EXCEPT
     !.out = [h \in Handles |-> IF h \in Members(st) THEN Append(st.out[h], ev)
                                ELSE st.out[h]],
     !.pending = @ \cup (F \cap Members(st))]

\* Client.Removed(cause): terminal (the Client is not part of src/).
Removed(st, c) == [st EXCEPT !.clients[c].removed = TRUE]

writeLastMsg(st, cid, t) == [st EXCEPT !.lastMsg = MapSet(@, cid, t)]

removeLastMsg(st, cid) == [st EXCEPT !.lastMsg = MapDelete(@, cid)]

\* The index of the first occurrence of cid in order, 0 when there is none.
IndexOf(order, cid) ==
  IF \E i \in 1..Len(order) : order[i] = cid
  THEN CHOOSE i \in 1..Len(order) :
         order[i] = cid /\ \A j \in 1..(i - 1) : order[j] # cid
  ELSE 0

AtMostOnePlayerLeft(st) == Cardinality(DOMAIN st.players) <= 1

\* len(r.players) == 0
NoPlayerLeft(st) == DOMAIN st.players = {}

removePlayer(st, c, cause, F) ==
  LET cid == IDOf(st, c) IN
  IF ~(cid \in DOMAIN st.players /\ st.players[cid] = c)
  THEN st
  ELSE
    LET i  == IndexOf(st.masterOrder, cid)
        s1 == [WriteMap(st, "players", "delete") EXCEPT
                         !.players = MapDelete(@, cid),
                         !.masterOrder = IF i = 0 THEN @ ELSE SeqRemoveAt(@, i),
                         !.since = MapDelete(@, cid)]
        s2 == Removed(s1, c)
    IN
    IF NoPlayerLeft(s2)
    THEN \* close(r.done): closing a closed channel panics
         IF s2.done THEN [s2 EXCEPT !.crashed = TRUE] ELSE [s2 EXCEPT !.done = TRUE]
    ELSE
      IF IDOf(s2, s2.master) = cid /\ Len(s2.masterOrder) = 0
      THEN [s2 EXCEPT !.crashed = TRUE]   \* r.masterOrder[0]: index out of range
      ELSE
        LET s3 == IF IDOf(s2, s2.master) = cid
                  THEN IF s2.masterOrder[1] \in DOMAIN s2.players
                       THEN [s2 EXCEPT !.master = s2.players[s2.masterOrder[1]]]
                       ELSE [s2 EXCEPT !.master = Nil]
                  ELSE s2
        IN
        IF s3.master = Nil
        THEN [s3 EXCEPT !.crashed = TRUE]   \* r.master.Id of a nil master
        ELSE
          LET s4 == [s3 EXCEPT !.info.Players = Cardinality(DOMAIN s3.players)]
              s5 == broadcast(s4, NewEvLeft(cid, IDOf(s4, s4.master), cause), F)
          IN removeLastMsg(s5, cid)

removeWatcher(st, c, cause) ==
  LET cid == IDOf(st, c) IN
  IF ~(cid \in DOMAIN st.watchers /\ st.watchers[cid] = c)
  THEN st
  ELSE Removed([WriteMap(st, "watchers", "delete") EXCEPT
                          !.watchers = MapDelete(@, cid),
                          !.info.Watchers = @ - st.clients[c].nodeCount], c)

removeClient(st, c, cause, F) ==
  IF st.clients[c].isPlayer
  THEN removePlayer(st, c, cause, F)
  ELSE removeWatcher(st, c, cause)


\* ------------------------------------------------------------------ handlers
NewClient(cid, isPlayer, nodeCount) ==
  [id |-> cid, isPlayer |-> isPlayer, nodeCount |-> nodeCount, removed |-> FALSE]

\* Whether c is the Client registered under its id (the test the handlers of
\* client messages start with).
IsRegisteredId(st, c) ==
  LET cid == IDOf(st, c) IN
  IF st.clients[c].isPlayer THEN cid \in DOMAIN st.players ELSE cid \in DOMAIN st.watchers

IsCurrent(st, c) ==
  LET cid == IDOf(st, c) IN
  IF st.clients[c].isPlayer
  THEN cid \in DOMAIN st.players /\ st.players[cid] = c
  ELSE cid \in DOMAIN st.watchers /\ st.watchers[cid] = c

\* The loop of msgRoomProp/msgClientProp over the given properties.
MergeProps(d, m) ==
  LET deleted == {k \in DOMAIN m : k \in DOMAIN d /\ Len(m[k]) = 0}
  IN [k \in ((DOMAIN d) \cup (DOMAIN m)) \ deleted |->
        IF k \in DOMAIN m THEN m[k] ELSE d[k]]

Reply(st, r) == [ChanSend(st, "reply", FALSE) EXCEPT !.reply = Append(@, r)]

\* ok: NewPlayer succeeds (the properties of the client unmarshal).
msgCreate(st, cid, ok, F, t) ==
  Unlock(
    LET sl == Lock(st) IN
    IF ~ok
    THEN Reply(sl, "InvalidArgument")
    ELSE
      LET h  == Len(sl.clients) + 1
          s1 == [WriteMap(sl, "players", "insert") EXCEPT
                           !.clients = Append(@, NewClient(cid, TRUE, 0)),
                           !.master = h,
                           !.players = MapSet(@, cid, h),
                           !.masterOrder = Append(@, cid),
                           !.since = MapSet(@, cid, h)]
          s2 == broadcast(Reply(s1, "Joined"), NewEvJoined(cid), F)
      IN writeLastMsg(s2, cid, t))

RoomFullAlwaysOpen(st, cid) == FALSE

\* !rejoin && r.MaxPlayers <= uint32(len(r.players))
RoomFull(st, cid) ==
  cid \notin DOMAIN st.players /\ st.info.MaxPlayers <= Cardinality(DOMAIN st.players)

NotJoinableIgnored(st) == FALSE

\* !r.Joinable
NotJoinable(st) == ~st.info.Joinable

IsWatcherIgnored(st, cid) == FALSE

\* _, ok := r.watchers[msg.SenderID()]
IsWatcher(st, cid) == cid \in DOMAIN st.watchers

msgJoin(st, cid, ok, F, t) ==
  IF NotJoinable(st)
  THEN Reply(st, "FailedPrecondition")
  ELSE Unlock(
    LET sl == Lock(st) IN
    IF IsWatcher(sl, cid)
    THEN Reply(sl, "AlreadyExists")
    ELSE IF RoomFull(sl, cid)
    THEN Reply(sl, "ResourceExhausted")
    ELSE IF ~ok
    THEN Reply(sl, "InvalidArgument")
    ELSE
      LET rejoin == cid \in DOMAIN sl.players
          h  == Len(sl.clients) + 1
          s1 == [WriteMap(sl, "players", IF rejoin THEN "replace" ELSE "insert") EXCEPT
                           !.clients = Append(@, NewClient(cid, TRUE, 0)),
                           !.players = MapSet(@, cid, h)]
          s2 == IF rejoin
                THEN LET oldp == sl.players[cid]
                         r1 == Removed(s1, oldp)
                     IN IF r1.master = oldp THEN [r1 EXCEPT !.master = h] ELSE r1
                ELSE [s1 EXCEPT !.masterOrder = Append(@, cid),
                                !.since = MapSet(@, cid, h),
                                !.info.Players = Cardinality(DOMAIN s1.players)]
          s3 == Reply(s2, "Joined")
          s4 == IF rejoin
                THEN broadcast(s3, NewEvRejoined(cid), F)
                ELSE broadcast(s3, NewEvJoined(cid), F)
      IN writeLastMsg(s4, cid, t))

msgWatch(st, cid, nodeCount, ok) ==
  IF ~st.info.Watchable
  THEN Reply(st, "FailedPrecondition")
  ELSE Unlock(
    LET sl == Lock(st) IN
    IF cid \in DOMAIN sl.players
    THEN Reply(sl, "AlreadyExists")
    ELSE IF ~ok
    THEN Reply(sl, "InvalidArgument")
    ELSE
      LET rejoin == cid \in DOMAIN sl.watchers
          h  == Len(sl.clients) + 1
          s1 == [WriteMap(sl, "watchers", IF rejoin THEN "replace" ELSE "insert") EXCEPT
                           !.clients = Append(@, NewClient(cid, FALSE, nodeCount)),
                           !.watchers = MapSet(@, cid, h)]
          s2 == IF rejoin
                THEN LET oldc == sl.watchers[cid]
                     IN [Removed(s1, oldc) EXCEPT
                           !.info.Watchers = @ - sl.clients[oldc].nodeCount]
                ELSE s1
      IN Reply([s2 EXCEPT !.info.Watchers = @ + nodeCount], "Joined"))

msgNodeCountOfAnyClient(st, c, count) ==
  Unlock(
    LET sl == Lock(st) IN
    IF sl.clients[c].nodeCount = count
    THEN sl
    ELSE [sl EXCEPT !.info.Watchers = (@ - sl.clients[c].nodeCount) + count,
                    !.clients[c].nodeCount = count])

msgNodeCount(st, c, count) ==
  Unlock(
    LET sl == Lock(st) IN
    IF ~(IDOf(sl, c) \in DOMAIN sl.watchers /\ sl.watchers[IDOf(sl, c)] = c)
    THEN sl
    ELSE IF sl.clients[c].nodeCount = count
    THEN sl
    ELSE [sl EXCEPT !.info.Watchers = (@ - sl.clients[c].nodeCount) + count,
                    !.clients[c].nodeCount = count])

msgLeave(st, c, message, F) == RUnlock(removeClient(RLock(st), c, message, F))

SenderIsNeverDenied(st, c) == FALSE

\* msg.Sender() != r.master
SenderIsNotMaster(st, c) == c # st.master

msgRoomProp(st, c, seq, p, F) ==
  RUnlock(
    LET sl == RLock(st) IN
    IF SenderIsNotMaster(sl, c)
    THEN sendTo(sl, c, NewEvPermissionDenied(seq, p.name), F)
    ELSE
      LET s1 == [sl EXCEPT !.info.Visible = p.Visible,
                           !.info.Joinable = p.Joinable,
                           !.info.Watchable = p.Watchable,
                           !.info.SearchGroup = p.SearchGroup,
                           !.info.MaxPlayers = p.MaxPlayer]
          s2 == IF DOMAIN p.PublicProps # {}
                THEN LET d == MergeProps(s1.publicProps, p.PublicProps)
                     IN [s1 EXCEPT !.publicProps = d, !.info.PublicProps = d]
                ELSE s1
          s3 == IF DOMAIN p.PrivateProps # {}
                THEN LET d == MergeProps(s2.privateProps, p.PrivateProps)
                     IN [s2 EXCEPT !.privateProps = d, !.info.PrivateProps = d]
                ELSE s2
          s4 == IF p.ClientDeadline # 0 /\ p.ClientDeadline # s3.deadline
                THEN IF DOMAIN s3.players = {}
                     THEN [s3 EXCEPT !.deadline = p.ClientDeadline]
                     ELSE \* for _, c := range r.players { c.newDeadline <- deadline }
                          ChanSend([s3 EXCEPT !.deadline = p.ClientDeadline], "newDeadline", TRUE)
                ELSE s3
          s5 == sendTo(s4, c, NewEvSucceeded(seq), F)
      IN broadcast(s5, NewEvRoomProp(IDOf(sl, c), p), F))

msgBroadcast(st, c, data, F) ==
  RUnlock(
    LET sl == RLock(st) IN
    IF ~IsCurrent(sl, c)
    THEN sl
    ELSE broadcast(sl, NewEvMessage(IDOf(sl, c), data), F))

\* for _, t := range msg.Targets: sendTo(c, ev) for the targets in players
RECURSIVE SendToTargets(_, _, _, _)
SendToTargets(st, ev, targets, F) ==
  IF targets = << >> THEN st
  ELSE IF Head(targets) \notin DOMAIN st.players
  THEN SendToTargets(st, ev, Tail(targets), F)
  ELSE SendToTargets(sendTo(st, st.players[Head(targets)], ev, F), ev, Tail(targets), F)

\* absent: the targets that are no key of players, in the order of the message
RECURSIVE Absent(_, _)
Absent(st, targets) ==
  IF targets = << >> THEN << >>
  ELSE IF Head(targets) \notin DOMAIN st.players
  THEN <<Head(targets)>> \o Absent(st, Tail(targets))
  ELSE Absent(st, Tail(targets))

AnyAbsentOrNot(absent) == TRUE

\* len(absent) > 0
AnyAbsent(absent) == Len(absent) > 0

msgTargets(st, c, seq, targets, data, F) ==
  RUnlock(
    LET sl == RLock(st) IN
    IF ~IsCurrent(sl, c)
    THEN sl
    ELSE
      LET s1 == SendToTargets(sl, NewEvMessage(IDOf(sl, c), data), targets, F)
          absent == Absent(sl, targets)
      IN IF AnyAbsent(absent)
         THEN sendTo(s1, c, NewEvTargetNotFound(seq, absent, <<targets, data>>), F)
         ELSE s1)

msgSwitchMaster(st, c, seq, target, F) ==
  RUnlock(
    LET sl == RLock(st) IN
    LET s0 == IF c # sl.master
              THEN sendTo(sl, c, NewEvPermissionDenied(seq, target), F)
              ELSE sl
    IN
    IF target \notin DOMAIN s0.players
    THEN sendTo(s0, c, NewEvTargetNotFound(seq, <<target>>, target), F)
    ELSE
      LET s1 == [s0 EXCEPT !.master = s0.players[target]]
          s2 == sendTo(s1, c, NewEvSucceeded(seq), F)
      IN broadcast(s2, NewEvMasterSwitched(IDOf(sl, c), IDOf(s2, s2.master)), F))

KickerIsNeverDenied(st, c) == FALSE

\* msg.Sender != r.master
KickerIsNotMaster(st, c) == c # st.master

msgKick(st, c, seq, target, message, F) ==
  Unlock(
    LET sl == Lock(st) IN
    IF KickerIsNotMaster(sl, c)
    THEN sendTo(sl, c, NewEvPermissionDenied(seq, target), F)
    ELSE IF target \notin DOMAIN sl.players
    THEN sendTo(sl, c, NewEvTargetNotFound(seq, <<target>>, target), F)
    ELSE
      LET s1 == sendTo(sl, c, NewEvSucceeded(seq), F)
      IN removeClient(s1, sl.players[target], message, F))

msgAdminKick(st, target, F) ==
  Unlock(
    LET sl == Lock(st) IN
    IF target \notin DOMAIN sl.players
    THEN Reply(sl, "player not found")
    ELSE Reply(removeClient(sl, sl.players[target], "kicked by admin", F), "nil"))

msgClientError(st, c, errMsg, F) == Unlock(removeClient(Lock(st), c, errMsg, F))

msgClientTimeout(st, c, F) == Unlock(removeClient(Lock(st), c, "timeout", F))



\* ------------------------------------------------------------------ actions
Running == loop = "running" /\ ~crashed

Created == master # Nil

\* lastMsg as updateLastMsg leaves it.  When the message was received in a
\* step of its own the test was made then, and the write is made now.
updateLastMsg(id) ==
  LET ok == IF recv.some THEN recv.ok ELSE id \in DOMAIN lastMsg
  IN IF ok THEN MapSet(lastMsg, id, now) ELSE lastMsg

\* The room when the handler of a message of sender id starts.
Base(id) == Cur(updateLastMsg(id))

\* The clients a handler hands an event to (st is the room it leaves).
Recipients(st) == {h \in Handles : st.out[h] # << >>}

\* The sets of clients whose Send fails during one step that hands events to
\* the clients of R, while n removal goroutines wait.
FailSets(R, n) ==
  IF n < MaxPending THEN {{}} \cup {{h} : h \in R} ELSE {{}}

Fails(st) == FailSets(Recipients(st), Cardinality(pending))

ApplyRoom(st, r) ==
  /\ clients' = st.clients
  /\ players' = st.players
  /\ watchers' = st.watchers
  /\ master' = st.master
  /\ masterOrder' = st.masterOrder
  /\ lastMsg' = st.lastMsg
  /\ info' = st.info
  /\ deadline' = st.deadline
  /\ publicProps' = st.publicProps
  /\ privateProps' = st.privateProps
  /\ done' = st.done
  /\ crashed' = st.crashed
  /\ pending' = st.pending
  /\ since' = st.since
  /\ recv' = r
  /\ now' = now
  /\ UNCHANGED peerVars

Apply(st, r) == ApplyRoom(st, r) /\ UNCHANGED <<sent, frameVars, infoVars, drainVars>>

\* MsgLoop: the select takes a message from msgCh (it may do so with done
\* closed: select chooses among the ready cases), and updateLastMsg tests
\* whether the sender has an entry.  A step of its own only where a removal
\* goroutine can change the outcome by running before the write: the sender
\* has an entry and is the id of a client that goroutine removes.
MsgLoopRecv ==
  /\ Running
  /\ Created
  /\ ~recv.some
  /\ \E id \in DOMAIN lastMsg :
       /\ \E c \in pending : clients[c].id = id
       /\ recv' = [id |-> id, ok |-> TRUE, some |-> TRUE]
  /\ UNCHANGED <<peer, evbuf, wire, sent, frameVars, infoVars, drainVars, clients, players, watchers, master, masterOrder, lastMsg, info,
                 deadline, publicProps, privateProps, done, crashed, loop, pending,
                 now, since>>

\* MsgLoop: the select takes the closed done channel; the loop ends.
MsgLoopExit ==
  /\ Running
  /\ ~recv.some
  /\ done
  /\ loop' = "exited"
  /\ UNCHANGED <<peer, evbuf, wire, sent, frameVars, infoVars, drainVars, clients, players, watchers, master, masterOrder, lastMsg, info,
                 deadline, publicProps, privateProps, done, crashed, recv, pending,
                 now, since>>

\* MsgLoop dispatches a message whose SenderID is id.
Dispatching(id) == Running /\ (recv.some => recv.id = id)

\* The messages of a client: of any Client object constructed so far, also
\* one that was replaced or removed since it put the message on msgCh.
ClientMsg(c) == Created /\ c \in 1..Len(clients) /\ Dispatching(clients[c].id)

\* The Join messages of sender cid the loop can dispatch now, with a Client
\* handle left for the player they make.
JoinMsg(cid) == Created /\ Dispatching(cid) /\ Len(clients) < MaxClients

MsgCreate ==
  /\ ~Created
  /\ clients = << >>
  /\ \E cid \in CreatorIDs, ok \in BOOLEAN :
       /\ Dispatching(cid)
       /\ Apply(msgCreate(Base(cid), cid, ok, {}, now), NoRecv)
       /\ loop' = IF ok THEN loop ELSE "blocked"

MsgJoin ==
  /\ Created
  /\ \E cid \in ClientIDs, ok \in BOOLEAN :
       /\ Dispatching(cid)
       /\ \E F \in Fails(msgJoin(Base(cid), cid, ok, {}, now)) :
            LET st == msgJoin(Base(cid), cid, ok, F, now)
            IN /\ Len(st.clients) <= MaxClients
               /\ Apply(st, NoRecv)
  /\ UNCHANGED loop

MsgWatch ==
  /\ Created
  /\ \E cid \in ClientIDs, n \in NodeCounts, ok \in BOOLEAN :
       /\ Dispatching(cid)
       /\ LET st == msgWatch(Base(cid), cid, n, ok)
          IN /\ Len(st.clients) <= MaxClients
             /\ Apply(st, NoRecv)
  /\ UNCHANGED loop

MsgNodeCount ==
  /\ \E c \in 1..Len(clients), n \in NodeCounts :
       /\ ClientMsg(c)
       /\ ~clients[c].isPlayer
       /\ Apply(msgNodeCount(Base(clients[c].id), c, n), NoRecv)
  /\ UNCHANGED loop

MsgLeave ==
  /\ \E c \in 1..Len(clients) :
       /\ ClientMsg(c)
       /\ \E F \in Fails(msgLeave(Base(clients[c].id), c, "leave", {})) :
            Apply(msgLeave(Base(clients[c].id), c, "leave", F), NoRecv)
  /\ UNCHANGED loop

MsgRoomProp ==
  /\ \E c \in 1..Len(clients), seq \in MsgSeqs, p \in RoomPropPayloads :
       /\ ClientMsg(c)
       /\ \E F \in Fails(msgRoomProp(Base(clients[c].id), c, seq, p, {})) :
            Apply(msgRoomProp(Base(clients[c].id), c, seq, p, F), NoRecv)
  /\ UNCHANGED loop

MsgBroadcast ==
  /\ \E c \in 1..Len(clients), d \in DataSet :
       /\ ClientMsg(c)
       /\ \E F \in Fails(msgBroadcast(Base(clients[c].id), c, d, {})) :
            Apply(msgBroadcast(Base(clients[c].id), c, d, F), NoRecv)
  /\ UNCHANGED loop

MsgTargets ==
  /\ \E c \in 1..Len(clients), seq \in MsgSeqs, targets \in TargetLists, d \in DataSet :
       /\ ClientMsg(c)
       /\ \E F \in Fails(msgTargets(Base(clients[c].id), c, seq, targets, d, {})) :
            Apply(msgTargets(Base(clients[c].id), c, seq, targets, d, F), NoRecv)
  /\ UNCHANGED loop

MsgSwitchMaster ==
  /\ \E c \in 1..Len(clients), seq \in MsgSeqs, target \in ClientIDs :
       /\ ClientMsg(c)
       /\ \E F \in Fails(msgSwitchMaster(Base(clients[c].id), c, seq, target, {})) :
            Apply(msgSwitchMaster(Base(clients[c].id), c, seq, target, F), NoRecv)
  /\ UNCHANGED loop

MsgKick ==
  /\ \E c \in 1..Len(clients), seq \in MsgSeqs, target \in ClientIDs :
       /\ ClientMsg(c)
       /\ \E F \in Fails(msgKick(Base(clients[c].id), c, seq, target, "kicked", {})) :
            Apply(msgKick(Base(clients[c].id), c, seq, target, "kicked", F), NoRecv)
  /\ UNCHANGED loop

MsgAdminKick ==
  /\ Created
  /\ Dispatching(NoID)
  /\ \E target \in ClientIDs :
       \E F \in Fails(msgAdminKick(Base(NoID), target, {})) :
         Apply(msgAdminKick(Base(NoID), target, F), NoRecv)
  /\ UNCHANGED loop

MsgClientError ==
  /\ \E c \in 1..Len(clients) :
       /\ ClientMsg(c)
       /\ \E F \in Fails(msgClientError(Base(clients[c].id), c, "error", {})) :
            Apply(msgClientError(Base(clients[c].id), c, "error", F), NoRecv)
  /\ UNCHANGED loop

MsgClientTimeout ==
  /\ \E c \in 1..Len(clients) :
       /\ ClientMsg(c)
       /\ \E F \in Fails(msgClientTimeout(Base(clients[c].id), c, {})) :
            Apply(msgClientTimeout(Base(clients[c].id), c, F), NoRecv)
  /\ UNCHANGED loop

\* The room when the removal goroutine of client c takes muClients.
BaseRemove(c) == [Cur(lastMsg) EXCEPT !.pending = @ \ {c}]

\* The goroutine sendTo starts: Lock, removeClient(c, err.Error()), Unlock.
\* It runs whenever muClients is free, also after the loop has ended.
sendToRemoval(st, c, F) ==
  Unlock(removeClient(Lock([st EXCEPT !.by = "goroutine"]), c, "send error", F))

SendToRemove ==
  /\ ~crashed
  /\ \E c \in pending :
     \E F \in FailSets(Recipients(sendToRemoval(BaseRemove(c), c, {})),
                       Cardinality(pending) - 1) :
       Apply(sendToRemoval(BaseRemove(c), c, F), recv)
  /\ UNCHANGED loop

\* The clock advances.
Tick ==
  /\ ~crashed
  /\ now < MaxNow
  /\ now' = now + 1
  /\ UNCHANGED <<peer, evbuf, wire, sent, frameVars, infoVars, drainVars, clients, players, watchers, master, masterOrder, lastMsg, info,
                 deadline, publicProps, privateProps, done, crashed, loop, recv,
                 pending, since>>

\* The room with the clock running, for the claims about the times in lastMsg.
NextTime ==
  \/ Tick
  \/ MsgLoopRecv
  \/ MsgLoopExit
  \/ MsgCreate
  \/ MsgJoin
  \/ MsgWatch
  \/ MsgLeave
  \/ MsgRoomProp
  \/ SendToRemove

SpecTime == Init /\ [][NextTime]_vars

NextRoom ==
  \/ MsgLoopRecv
  \/ MsgLoopExit
  \/ MsgCreate
  \/ MsgJoin
  \/ MsgWatch
  \/ MsgNodeCount
  \/ MsgLeave
  \/ MsgRoomProp
  \/ MsgBroadcast
  \/ MsgTargets
  \/ MsgSwitchMaster
  \/ MsgKick
  \/ MsgAdminKick
  \/ MsgClientError
  \/ MsgClientTimeout
  \/ SendToRemove

SpecRoom == Init /\ [][NextRoom]_vars

Spec == SpecRoom

\* The room with the messages after which a Send can fail and a client can
\* leave or come back, and the goroutines that sendTo starts; such a
\* goroutine is scheduled and gets muClients.
NextFail ==
  \/ MsgLoopRecv
  \/ MsgLoopExit
  \/ MsgCreate
  \/ MsgJoin
  \/ MsgWatch
  \/ MsgLeave
  \/ MsgBroadcast
  \/ SendToRemove

\* SendToRemove can be taken: a removal goroutine waits.
RemovalReady == ~crashed /\ pending # {}

\* A removal goroutine has run: only SendToRemove takes a client out of
\* pending.
RemovalStep == \E c \in pending : c \notin pending'

\* The step of a removal goroutine by what it does to pending: it can be
\* taken when RemovalReady, and the steps that take it are RemovalStep.
RemovalRuns ==
  /\ RemovalReady
  /\ \E c \in pending, P \in SUBSET Handles :
       /\ c \notin P
       /\ pending' = P

\* A removal goroutine that waits for muClients gets it in the end:
\* WF_vars(SendToRemove), with SendToRemove written as RemovalRuns, which
\* always changes pending.
RemovalFairness == WF_pending(RemovalRuns)

SpecFail == Init /\ [][NextFail]_vars /\ RemovalFairness

\* RemovalReady and RemovalStep are what RemovalFairness takes them for.
RemovalReadyIsEnabled == RemovalReady <=> ENABLED <<SendToRemove>>_vars

RemovalStepIsSendToRemove == [][RemovalStep <=> SendToRemove]_vars

RemovalRunsIsSendToRemove == [][RemovalRuns <=> SendToRemove]_vars

\* -------------------------------------------------------------------- peer
\* One client's Peer objects, one after the other, and its event buffer.
roomVarsButCodec ==
  <<clients, players, watchers, master, masterOrder, lastMsg, info, deadline,
    publicProps, privateProps, done, crashed, loop, recv, pending, now, since,
    sent, msgCh, wgClient, inRepo, caller, waiter, chRoomInfo, lastRoomInfo, updater,
    socket>>

roomVarsButSocket ==
  <<clients, players, watchers, master, masterOrder, lastMsg, info, deadline,
    publicProps, privateProps, done, crashed, loop, recv, pending, now, since,
    sent, msgCh, wgClient, inRepo, caller, waiter, chRoomInfo, lastRoomInfo, updater,
    codec, reader>>

roomVars == <<clients, players, watchers, master, masterOrder, lastMsg, info, deadline,
              publicProps, privateProps, done, crashed, loop, recv, pending, now, since,
              sent, msgCh, wgClient, inRepo, caller, waiter,
              chRoomInfo, lastRoomInfo, updater, codec, reader, socket>>

\* RingBuf.Write: the buffer keeps the newest EventBufSize events.
Write(buf, ev) ==
  LET evs == Append(buf.evs, ev)
  IN [evs  |-> IF Len(evs) > EventBufSize THEN Tail(evs) ELSE evs,
      last |-> buf.last + 1]

\* RingBuf.Read fails when the event after seq is no longer in the buffer.
ReadError(buf, seq) == seq + 1 < buf.last - Len(buf.evs) + 1 \/ seq > buf.last

\* RingBuf.Read: the buffered events after seq.
Read(buf, seq) ==
  LET first == buf.last - Len(buf.evs) + 1
  IN SubSeq(buf.evs, seq + 2 - first, Len(buf.evs))

\* Client.AttachPeer rejects a lastEventSeq ahead of the buffer or too old.
AttachPeer(buf, lastEvSeq) == ~ReadError(buf, lastEvSeq)

\* The close frame formatCloseMessage(code, msg) is written unless the Peer is
\* closed; msg is the error that is the cause.
closeWithMessage(p, code, msg) ==
  IF p.closed THEN p ELSE [p EXCEPT !.closed = TRUE, !.closeCode = code, !.closeMsg = msg]

CloseAsClientError(p) == closeWithMessage(p, "CloseInternalServerErr", "removed")

\* Peer.Close: the Client was removed.
Close(p) == closeWithMessage(p, "CloseNormalClosure", "removed")

\* Peer.CloseWithClientError
CloseWithClientError(p) == closeWithMessage(p, "CloseInternalServerErr", "client error")

\* Peer.SendSystemEvent when writeMessage fails.
SendSystemEvent(p) == closeWithMessage(p, "CloseInternalServerErr", "write failure")

\* Peer.MsgLoop when ReadMessage fails with an error that is no close error.
ReadFails(p) == closeWithMessage(p, "CloseInternalServerErr", "read error")

\* Peer.MsgLoop when binary.UnmarshalMsg fails (decoding or MAC).
UnmarshalFails(p) == closeWithMessage(p, "CloseInvalidFramePayloadData", "decode failure")

NewPeer(buf, lastEvSeq) ==
  LET p == [exists |-> TRUE, lastEvSeq |-> lastEvSeq, evSeqNum |-> lastEvSeq,
            closed |-> FALSE, closeCode |-> "", closeMsg |-> "", stopped |-> FALSE]
  IN IF AttachPeer(buf, lastEvSeq)
     THEN p
     ELSE [closeWithMessage(p, "CloseGoingAway", "attach rejected") EXCEPT !.stopped = TRUE]

seqNumKept(seqNum) == seqNum

\* seqNum++
seqNumNext(seqNum) == seqNum + 1

\* The frames of evs as the loop of SendEvents marshals them after seqNum.
RECURSIVE Marshal(_, _)
Marshal(evs, seqNum) ==
  IF evs = << >> THEN << >>
  ELSE <<[seq |-> seqNumNext(seqNum), ev |-> Head(evs)]>>
         \o Marshal(Tail(evs), seqNumNext(seqNum))

WriteNeverFails(frames, fail) == FALSE

\* err := writeMessage(...); err != nil, for one of the frames
WriteFails(frames, fail) == fail \in 1..Len(frames)

\* SendEvents when the write of frame number fail fails (none when fail = 0):
\* the Peer it leaves, the frames it wrote, and whether it returns an error.
SendEvents(p, buf, fail) ==
  IF p.closed
  THEN [peer |-> p, written |-> << >>, err |-> FALSE]
  ELSE IF ReadError(buf, p.evSeqNum)
  THEN [peer |-> closeWithMessage(p, "CloseGoingAway", "too old"), written |-> << >>, err |-> TRUE]
  ELSE
    LET frames == Marshal(Read(buf, p.evSeqNum), p.evSeqNum)
    IN IF WriteFails(frames, fail)
       THEN [peer    |-> closeWithMessage(p, "CloseInternalServerErr", "write failure"),
             written |-> SubSeq(frames, 1, fail - 1),
             err     |-> FALSE]
       ELSE [peer    |-> [p EXCEPT !.evSeqNum =
                            IF frames = << >> THEN @ ELSE frames[Len(frames)].seq],
             written |-> frames,
             err     |-> FALSE]

\* Client.Send puts the next event of the room into the buffer.
ClientSend ==
  /\ evbuf.last < MaxEvents
  /\ evbuf' = Write(evbuf, evbuf.last + 1)
  /\ UNCHANGED <<peer, wire, roomVars>>

\* A socket connects with X-Wsnet-LastEventSeq = n; the Peer it makes takes
\* the place of the one before.
PeerConnect ==
  /\ \E n \in 0..MaxEvents :
       peer' = NewPeer(evbuf, n)
  /\ wire' = << >>
  /\ UNCHANGED <<evbuf, roomVars>>

\* The Client loop calls SendEvents of its Peer; an error stops the loop.
PeerSendEvents ==
  /\ peer.exists
  /\ ~peer.stopped
  /\ \E fail \in 0..EventBufSize :
       LET r == SendEvents(peer, evbuf, fail) IN
       /\ peer' = [r.peer EXCEPT !.stopped = r.err]
       /\ wire' = wire \o r.written
  /\ UNCHANGED <<evbuf, roomVars>>

\* Close, CloseWithClientError, a failed SendSystemEvent or an error of the
\* read loop closes the Peer.
PeerClose ==
  /\ peer.exists
  /\ peer' \in {Close(peer), CloseWithClientError(peer), SendSystemEvent(peer),
               ReadFails(peer), UnmarshalFails(peer)}
  /\ UNCHANGED <<evbuf, wire, roomVars>>

NextPeer ==
  \/ ClientSend
  \/ PeerConnect
  \/ PeerSendEvents
  \/ PeerClose

SpecPeer == Init /\ [][NextPeer]_vars

\* ------------------------------------------------------------ events sent
\* The room with a record of what each Client's Send was handed.  Client.Send
\* appends the event to the Client's buffer, which numbers events from 1.
RECURSIVE Numbered(_, _)
Numbered(evs, last) ==
  IF evs = << >> THEN << >>
  ELSE <<[seq |-> last + 1, ev |-> Head(evs)]>> \o Numbered(Tail(evs), last + 1)

ApplySent(st) ==
  /\ ApplyRoom(st, NoRecv)
  /\ sent' = [h \in Handles |-> sent[h] \o Numbered(st.out[h], Len(sent[h]))]
  /\ \A h \in Handles : Len(sent'[h]) <= MaxSent
  /\ UNCHANGED <<loop, drainVars, infoVars, frameVars>>

SentCreate ==
  /\ Running
  /\ ~Created
  /\ clients = << >>
  /\ \E cid \in CreatorIDs : ApplySent(msgCreate(Base(cid), cid, TRUE, {}, now))

SentJoin ==
  /\ Running
  /\ \E cid \in ClientIDs :
       /\ JoinMsg(cid)
       /\ ApplySent(msgJoin(Base(cid), cid, TRUE, {}, now))

SentBroadcast ==
  \E c \in 1..Len(clients), d \in DataSet :
    /\ ClientMsg(c)
    /\ ApplySent(msgBroadcast(Base(clients[c].id), c, d, {}))

SentLeave ==
  \E c \in 1..Len(clients) :
    /\ ClientMsg(c)
    /\ ApplySent(msgLeave(Base(clients[c].id), c, "leave", {}))

NextSent ==
  \/ SentCreate
  \/ SentJoin
  \/ SentBroadcast
  \/ SentLeave

SpecSent == Init /\ [][NextSent]_vars

\* ------------------------------------------------------------------- drain
\* The room with its channel of messages, the goroutines of its Clients and
\* the end of MsgLoop.  A Client's goroutine joins wgClient when the Client is
\* made, puts its messages on msgCh through Room.SendMessage, and leaves the
\* wait group when the room is done or the Client has been removed.  The
\* messages of the control plane (Create, Join) are dispatched in the step
\* that sends them; no Send fails.

\* The capacity of msgCh taken for the runs (RoomMsgChSize is 10).
MsgChSize == 1

\* The messages the goroutines of the Clients send.
DrainMsgs == {"MsgLeave", "MsgBroadcast"}

\* The goroutines of the Clients the handler made are started.
StartClients(st) ==
  LET new == (1..Len(st.clients)) \ (1..Len(clients))
  IN /\ caller' = [h \in Handles |-> IF h \in new THEN "idle" ELSE caller[h]]
     /\ wgClient' = wgClient + Cardinality(new)

DrainCreate ==
  /\ Running
  /\ ~Created
  /\ clients = << >>
  /\ \E cid \in CreatorIDs :
       LET st == msgCreate(Base(cid), cid, TRUE, {}, now)
       IN /\ ApplyRoom(st, NoRecv)
          /\ StartClients(st)
  /\ UNCHANGED <<sent, frameVars, infoVars, loop, msgCh, inRepo, waiter>>

DrainJoin ==
  /\ Running
  /\ \E cid \in ClientIDs :
       /\ JoinMsg(cid)
       /\ LET st == msgJoin(Base(cid), cid, TRUE, {}, now)
          IN /\ ApplyRoom(st, NoRecv)
             /\ StartClients(st)
  /\ UNCHANGED <<sent, frameVars, infoVars, loop, msgCh, inRepo, waiter>>

\* The goroutine of Client c calls Room.SendMessage.
ClientCall(c) ==
  /\ ~crashed
  /\ caller[c] = "idle"
  /\ caller' = [caller EXCEPT ![c] = "sending"]
  /\ UNCHANGED <<roomFields, peerVars, sent, frameVars, infoVars, msgCh, wgClient, inRepo, waiter>>

\* Room.SendMessage: select { case <-r.done: case r.msgCh <- msg: }
SendMessage(c) ==
  /\ ~crashed
  /\ caller[c] = "sending"
  /\ \/ /\ done
        /\ UNCHANGED msgCh
     \/ /\ Len(msgCh) < MsgChSize
        /\ \E type \in DrainMsgs : msgCh' = Append(msgCh, [type |-> type, c |-> c])
  /\ caller' = [caller EXCEPT ![c] = "idle"]
  /\ UNCHANGED <<roomFields, peerVars, sent, frameVars, infoVars, wgClient, inRepo, waiter>>

\* The goroutine of Client c ends: the room is done or c has been removed.
ClientExit(c) ==
  /\ ~crashed
  /\ caller[c] = "idle"
  /\ done \/ clients[c].removed
  /\ caller' = [caller EXCEPT ![c] = "exited"]
  /\ wgClient' = wgClient - 1
  /\ UNCHANGED <<roomFields, peerVars, sent, frameVars, infoVars, msgCh, inRepo, waiter>>

\* MsgLoop: case msg := <-r.msgCh: updateLastMsg, dispatch.
DrainDispatch ==
  /\ Running
  /\ msgCh # << >>
  /\ LET m == Head(msgCh)
         b == Base(clients[m.c].id)
     IN ApplyRoom(IF m.type = "MsgLeave" THEN msgLeave(b, m.c, "leave", {})
                  ELSE msgBroadcast(b, m.c, "d", {}), NoRecv)
  /\ msgCh' = Tail(msgCh)
  /\ UNCHANGED <<sent, frameVars, infoVars, loop, wgClient, inRepo, caller, waiter>>

\* MsgLoop: case <-r.Done(): break Loop; r.repo.RemoveRoom(r); drainMsg starts
\* its goroutine.
DrainLoopExit ==
  /\ Running
  /\ done
  /\ loop' = "draining"
  /\ inRepo' = FALSE
  /\ waiter' = "waiting"
  /\ UNCHANGED <<clients, players, watchers, master, masterOrder, lastMsg, info, deadline,
                 publicProps, privateProps, done, crashed, recv, pending, now, since,
                 peerVars, sent, frameVars, infoVars, msgCh, wgClient, caller>>

\* drainMsg: case msg := <-r.msgCh: the message is discarded.
DrainDiscard ==
  /\ ~crashed
  /\ loop = "draining"
  /\ msgCh # << >>
  /\ msgCh' = Tail(msgCh)
  /\ UNCHANGED <<roomFields, peerVars, sent, frameVars, infoVars, wgClient, inRepo, caller, waiter>>

\* r.wgClient.Wait() returns
WaitReturns == wgClient = 0

\* drainMsg's goroutine: r.wgClient.Wait() returns, it goes on to ch <- struct{}{}.
DrainWait ==
  /\ ~crashed
  /\ waiter = "waiting"
  /\ WaitReturns
  /\ waiter' = "sending"
  /\ UNCHANGED <<roomFields, peerVars, sent, frameVars, infoVars, msgCh, wgClient, inRepo, caller>>

\* drainMsg: case <-ch: return; MsgLoop ends.
DrainReturn ==
  /\ ~crashed
  /\ loop = "draining"
  /\ waiter = "sending"
  /\ loop' = "exited"
  /\ waiter' = "done"
  /\ UNCHANGED <<clients, players, watchers, master, masterOrder, lastMsg, info, deadline,
                 publicProps, privateProps, done, crashed, recv, pending, now, since,
                 peerVars, sent, frameVars, infoVars, msgCh, wgClient, inRepo, caller>>

NextDrain ==
  \/ DrainCreate
  \/ DrainJoin
  \/ \E c \in Handles : ClientCall(c)
  \/ \E c \in Handles : SendMessage(c)
  \/ \E c \in Handles : ClientExit(c)
  \/ DrainDispatch
  \/ DrainLoopExit
  \/ DrainDiscard
  \/ DrainWait
  \/ DrainReturn

\* The receives of the two selects, the select of SendMessage and the
\* goroutine of drainMsg go on whenever they can; a Client's goroutine, whose
\* select takes any ready case, ends when it can end again and again.
DrainFairness ==
  /\ WF_vars(DrainLoopExit)
  /\ WF_vars(DrainDiscard)
  /\ WF_vars(DrainWait)
  /\ WF_vars(DrainReturn)
  /\ \A c \in Handles : WF_vars(SendMessage(c))
  /\ \A c \in Handles : SF_vars(ClientExit(c))

SpecDrain == Init /\ [][NextDrain]_vars /\ DrainFairness

\* --------------------------------------------------------------- room info
\* The goroutine roomInfoUpdater and the calls of updateRoomInfo that the
\* handlers make.  A RoomInfo is the number of the call that cloned it.

\* The calls of updateRoomInfo in a run.
MaxUpdates == 4

\* make(chan struct{}, 1)
ChRoomInfoSize == 1

SendNothing(ch) == ch

\* select { case r.chRoomInfo <- struct{}{}: default: }
TrySend(ch) == IF ch < ChRoomInfoSize THEN ch + 1 ELSE ch

TryRecvNothing(ch) == ch

\* select { case <-r.chRoomInfo: default: }
TryRecv(ch) == IF ch > 0 THEN ch - 1 ELSE ch

\* A handler calls updateRoomInfo.
InfoUpdate ==
  /\ lastRoomInfo < MaxUpdates
  /\ lastRoomInfo' = lastRoomInfo + 1
  /\ chRoomInfo' = TrySend(chRoomInfo)
  /\ UNCHANGED <<roomFields, peerVars, sent, frameVars, drainVars, updater>>

\* removePlayer closes done.
InfoClose ==
  /\ ~done
  /\ done' = TRUE
  /\ UNCHANGED <<clients, players, watchers, master, masterOrder, lastMsg, info, deadline,
                 publicProps, privateProps, crashed, loop, recv, pending, now, since,
                 peerVars, sent, frameVars, drainVars, infoVars>>

\* case <-r.chRoomInfo:
UpdaterTake ==
  /\ updater.pc = "select"
  /\ chRoomInfo > 0
  /\ chRoomInfo' = chRoomInfo - 1
  /\ updater' = [updater EXCEPT !.pc = "conn"]
  /\ UNCHANGED <<roomFields, peerVars, sent, frameVars, drainVars, lastRoomInfo>>

\* case <-r.done: return
UpdaterReturn ==
  /\ updater.pc = "select"
  /\ done
  /\ updater' = [updater EXCEPT !.pc = "returned"]
  /\ UNCHANGED <<roomFields, peerVars, sent, frameVars, drainVars, chRoomInfo, lastRoomInfo>>

\* r.repo.db.Connx gives a connection.
UpdaterConn ==
  /\ updater.pc = "conn"
  /\ updater' = [updater EXCEPT !.pc = "lock"]
  /\ UNCHANGED <<roomFields, peerVars, sent, frameVars, drainVars, chRoomInfo, lastRoomInfo>>

\* r.repo.db.Connx fails: time.Sleep(time.Second)
UpdaterConnFail ==
  /\ updater.pc = "conn"
  /\ updater' = [updater EXCEPT !.pc = "sleep"]
  /\ UNCHANGED <<roomFields, peerVars, sent, frameVars, drainVars, chRoomInfo, lastRoomInfo>>

\* continue
UpdaterRetry ==
  /\ updater.pc = "sleep"
  /\ updater' = [updater EXCEPT !.pc = "conn"]
  /\ UNCHANGED <<roomFields, peerVars, sent, frameVars, drainVars, chRoomInfo, lastRoomInfo>>

\* Under mRoomInfo: ri := r.lastRoomInfo, and a notification that waits is
\* taken from chRoomInfo.
UpdaterSnapshot ==
  /\ updater.pc = "lock"
  /\ updater' = [updater EXCEPT !.pc = "write", !.ri = lastRoomInfo]
  /\ chRoomInfo' = TryRecv(chRoomInfo)
  /\ UNCHANGED <<roomFields, peerVars, sent, frameVars, drainVars, lastRoomInfo>>

\* r.repo.updateRoomInfo(ri, conn, r.logger); conn.Close(); break
\* atEnd: lastRoomInfo when the write ends.
UpdaterWrite ==
  /\ updater.pc = "write"
  /\ updater.writes <= MaxUpdates
  /\ updater' = [updater EXCEPT !.pc = "select", !.written = updater.ri,
                                !.writes = @ + 1, !.atEnd = lastRoomInfo]
  /\ UNCHANGED <<roomFields, peerVars, sent, frameVars, drainVars, chRoomInfo, lastRoomInfo>>

NextInfo ==
  \/ InfoUpdate
  \/ InfoClose
  \/ UpdaterTake
  \/ UpdaterReturn
  \/ UpdaterConn
  \/ UpdaterConnFail
  \/ UpdaterRetry
  \/ UpdaterSnapshot
  \/ UpdaterWrite

\* The goroutine goes on whenever it can, and the database gives a
\* connection in the end.
InfoFairness ==
  /\ WF_vars(UpdaterTake)
  /\ SF_vars(UpdaterConn)
  /\ WF_vars(UpdaterRetry)
  /\ WF_vars(UpdaterSnapshot)
  /\ WF_vars(UpdaterWrite)

SpecInfo == Init /\ [][NextInfo]_vars /\ InfoFairness

\* ------------------------------------------------------------------- codec
\* The event frames of the binary package.  A byte is a number of 0..255, a
\* frame a sequence of bytes.
regularEvType == 30

responseEvType == 128

EvTypePeerReady == 1

EvTypePong == 2

EvTypeJoined == regularEvType

EvTypeMessage == regularEvType + 5

EvTypeSucceeded == responseEvType

EvTypePermissionDenied == responseEvType + 1

EvTypeTargetNotFound == responseEvType + 2

\* The values of EvType that the package defines.
EvTypes ==
  {EvTypePeerReady, EvTypePong} \cup (EvTypeJoined..EvTypeMessage)
    \cup (EvTypeSucceeded..EvTypeTargetNotFound)

\* put24(buf, n), put32(buf, n): n in big-endian bytes.
put24(n) == <<(n \div 65536) % 256, (n \div 256) % 256, n % 256>>

put32(n) == <<(n \div 16777216) % 256, (n \div 65536) % 256, (n \div 256) % 256, n % 256>>

\* get24(data), get32(data): the number in the first bytes of data.
get24(data) == data[1] * 65536 + data[2] * 256 + data[3]

get32(data) == data[1] * 16777216 + data[2] * 65536 + data[3] * 256 + data[4]

\* data[n:]
From(data, n) == SubSeq(data, n + 1, Len(data))

\* RegularEvent.Marshal
RegularEventMarshal(ev, seqNum) == <<ev.etype>> \o put32(seqNum) \o ev.payload

\* SystemEvent.Marshal
SystemEventMarshal(ev) == <<ev.etype>> \o ev.payload

\* UnmarshalEvent
UnmarshalEvent(data) ==
  IF Len(data) < 1
  THEN [err |-> TRUE, kind |-> "", etype |-> 0, payload |-> << >>, seq |-> 0]
  ELSE LET et == data[1]
           rest == From(data, 1)
       IN IF et < regularEvType
          THEN [err |-> FALSE, kind |-> "SystemEvent", etype |-> et, payload |-> rest,
                seq |-> 0]
          ELSE IF Len(rest) < 4
          THEN [err |-> TRUE, kind |-> "", etype |-> 0, payload |-> << >>, seq |-> 0]
          ELSE [err |-> FALSE, kind |-> "RegularEvent", etype |-> et,
                payload |-> From(rest, 4), seq |-> get32(rest)]

\* The response events, made from the message (its sequence number and
\* payload) that caused them; MarshalStrings(cliIds) is taken as given bytes.
RespSucceeded(msg) == [etype |-> EvTypeSucceeded, payload |-> put24(msg.seq)]

RespPermissionDenied(msg) ==
  [etype |-> EvTypePermissionDenied, payload |-> put24(msg.seq) \o msg.payload]

RespTargetNotFound(msg, ids) ==
  [etype |-> EvTypeTargetNotFound, payload |-> put24(msg.seq) \o ids \o msg.payload]

\* The longest frame body that arrives, and the bytes it is made of.
MaxBody == 5

BodyBytes == {0, 1}

\* Type bytes: defined ones, and ones next to them that are not defined.
TypeBytes == {0, 1, 2, 3, 29, 30, 35, 37, 127, 128, 130, 131, 255}

RECURSIVE SeqsUpTo(_, _)
SeqsUpTo(S, n) ==
  IF n = 0 THEN {<< >>}
  ELSE LET shorter == SeqsUpTo(S, n - 1)
       IN shorter \cup {Append(q, b) : q \in {x \in shorter : Len(x) = n - 1}, b \in S}

Frames == {<< >>} \cup {<<t>> \o q : t \in TypeBytes, q \in SeqsUpTo(BodyBytes, MaxBody)}

\* The messages that cause a response: sequence numbers that need one, two
\* and three bytes.
CausingSeqs == {0, 1, 258, 66051}

EvSeqNums == {1, 259}

Msgs == {[seq |-> n, payload |-> q] : n \in CausingSeqs, q \in {<< >>, <<7>>}}

Calls ==
  {[NoCall EXCEPT !.op = "UnmarshalEvent", !.data = f] : f \in Frames}
    \cup {[NoCall EXCEPT !.op = "SendResponse", !.seq = m.seq, !.payload = m.payload,
                         !.seqNum = n, !.kind = k] :
            m \in Msgs, n \in EvSeqNums,
            k \in {"Succeeded", "PermissionDenied", "TargetNotFound"}}

\* The call to make is drawn from Calls; the rest is as in Init.
InitCodec ==
  /\ clients = << >>
  /\ players = EmptyDict
  /\ watchers = EmptyDict
  /\ master = Nil
  /\ masterOrder = << >>
  /\ lastMsg = EmptyDict
  /\ info = [Visible |-> TRUE, Joinable |-> TRUE, Watchable |-> TRUE, SearchGroup |-> 0,
             MaxPlayers |-> InitMaxPlayers, Players |-> 1, Watchers |-> 0,
             PublicProps |-> EmptyDict, PrivateProps |-> EmptyDict]
  /\ deadline = 10
  /\ publicProps = EmptyDict
  /\ privateProps = EmptyDict
  /\ done = FALSE
  /\ crashed = FALSE
  /\ loop = "running"
  /\ recv = NoRecv
  /\ pending = {}
  /\ now = 0
  /\ since = EmptyDict
  /\ peer = NoPeer
  /\ evbuf = [evs |-> << >>, last |-> 0]
  /\ wire = << >>
  /\ sent = [h \in Handles |-> << >>]
  /\ msgCh = << >>
  /\ wgClient = 0
  /\ inRepo = TRUE
  /\ caller = [h \in Handles |-> "none"]
  /\ waiter = "none"
  /\ chRoomInfo = 0
  /\ lastRoomInfo = 0
  /\ updater = [pc |-> "select", ri |-> 0, written |-> 0, writes |-> 0, atEnd |-> 0]
  /\ codec \in Calls
  /\ reader = NoReader
  /\ socket = << >>

\* The client decodes the frame: [op "decoded", the frame, what UnmarshalEvent
\* returned].
Decode ==
  /\ codec.op = "UnmarshalEvent"
  /\ LET r == UnmarshalEvent(codec.data)
     IN codec' = [op |-> "decoded", data |-> codec.data, seqNum |-> 0, err |-> r.err,
                  kind |-> r.kind, etype |-> r.etype, payload |-> r.payload, seq |-> r.seq]
  /\ UNCHANGED <<roomVarsButCodec, peerVars, reader>>

\* The response event of a message as a handler makes it.
Response(c) ==
  LET msg == [seq |-> c.seq, payload |-> c.payload] IN
    IF c.kind = "Succeeded" THEN RespSucceeded(msg)
    ELSE IF c.kind = "PermissionDenied" THEN RespPermissionDenied(msg)
    ELSE RespTargetNotFound(msg, <<1, 9>>)

\* A handler hands the response event of a message to the Client's Send, and
\* Peer.SendEvents writes ev.Marshal(seqNum) to the socket: [op "framed", the
\* frame, the message in seq and payload].
SendResponse ==
  /\ codec.op = "SendResponse"
  /\ codec' = [codec EXCEPT !.op = "framed",
                            !.data = RegularEventMarshal(Response(codec), codec.seqNum),
                            !.etype = Response(codec).etype]
  /\ UNCHANGED <<roomVarsButCodec, peerVars, reader>>

NextCodec ==
  \/ Decode
  \/ SendResponse

SpecCodec == InitCodec /\ [][NextCodec]_vars

\* --------------------------------------------------------------- read loop
\* Peer.MsgLoop of one Peer, with the socket, the context, the Client's loop
\* and the Client's replacement of the Peer around it.  reader:
\*   pc         where the goroutine is: "none" (not started), "read" (in
\*              ReadMessage), "unmarshal", "select", "detach", "closeMsgCh",
\*              "closeDone" (the three statements after the loop), "exited"
\*   cause      what made the loop stop
\*   forwarded  the messages put on p.msgCh
\*   exits      the statements after the loop that were executed, in order
\*   ctxDone, detached, clientDone   ctx.Done(), p.detached, p.client.done
\*              are closed
\* The frames one socket delivers.
MaxFrames == 2

ExitPath == <<"DetachPeer", "close(msgCh)", "close(done)">>

StopCauses == {"closed", "close error", "read error", "net.ErrClosed", "decode failure",
               "ctx done", "detached", "client done"}

AfterLoop == {"detach", "closeMsgCh", "closeDone", "exited"}

Started == [pc |-> "read", cause |-> "", forwarded |-> 0, exits |-> << >>,
            ctxDone |-> FALSE, detached |-> FALSE, clientDone |-> FALSE]

\* NewPeer: go p.MsgLoop(ctx) when AttachPeer accepted the Peer.
ReaderStart ==
  /\ ~peer.exists
  /\ reader.pc = "none"
  /\ \E n \in 0..1 :
       /\ peer' = NewPeer(evbuf, n)
       /\ reader' = IF AttachPeer(evbuf, n) THEN Started ELSE reader
  /\ UNCHANGED <<roomVarsButCodec, codec, evbuf, wire>>

\* p.conn.ReadMessage() returns a frame.
ReadMessage ==
  /\ reader.pc = "read"
  /\ ~peer.closed
  /\ reader.forwarded < MaxFrames
  /\ reader' = [reader EXCEPT !.pc = "unmarshal"]
  /\ UNCHANGED <<roomVarsButCodec, codec, peerVars>>

\* p.conn.ReadMessage() returns an error: the socket was closed by this side
\* (p.closed), a close error, or another error, which closes the Peer with
\* CloseInternalServerErr unless it is net.ErrClosed.
ReadMessageError ==
  /\ reader.pc = "read"
  /\ \E e \in {"closed", "close error", "read error", "net.ErrClosed"} :
       /\ e = "closed" => peer.closed
       /\ reader' = [reader EXCEPT !.pc = "detach", !.cause = e]
       /\ peer' = IF e = "read error" THEN ReadFails(peer) ELSE peer
  /\ UNCHANGED <<roomVarsButCodec, codec, evbuf, wire>>

\* binary.UnmarshalMsg returns the message.
UnmarshalMsg ==
  /\ reader.pc = "unmarshal"
  /\ reader' = [reader EXCEPT !.pc = "select"]
  /\ UNCHANGED <<roomVarsButCodec, codec, peerVars>>

\* binary.UnmarshalMsg fails (decoding or MAC).
UnmarshalError ==
  /\ reader.pc = "unmarshal"
  /\ reader' = [reader EXCEPT !.pc = "detach", !.cause = "decode failure"]
  /\ peer' = UnmarshalFails(peer)
  /\ UNCHANGED <<roomVarsButCodec, codec, evbuf, wire>>

OnlyCtx(r) == IF r.ctxDone THEN {"ctx done"} ELSE {}

\* The cases of the select that break the loop and are ready.
BreakCases(r) ==
  (IF r.ctxDone THEN {"ctx done"} ELSE {})
    \cup (IF r.detached THEN {"detached"} ELSE {})
    \cup (IF r.clientDone THEN {"client done"} ELSE {})

\* case <-ctx.Done(), <-p.detached, <-p.client.done: break loop
SelectBreak ==
  /\ reader.pc = "select"
  /\ \E e \in BreakCases(reader) :
       reader' = [reader EXCEPT !.pc = "detach", !.cause = e]
  /\ UNCHANGED <<roomVarsButCodec, codec, peerVars>>

\* case p.msgCh <- msg: the Client's loop receives the message (the channel
\* has no buffer); a Client that is done receives no more.
SelectForward ==
  /\ reader.pc = "select"
  /\ ~reader.clientDone
  /\ reader' = [reader EXCEPT !.pc = "read", !.forwarded = @ + 1]
  /\ UNCHANGED <<roomVarsButCodec, codec, peerVars>>

\* p.client.DetachPeer(p)
ExitDetach ==
  /\ reader.pc = "detach"
  /\ reader' = [reader EXCEPT !.pc = "closeMsgCh", !.exits = Append(@, "DetachPeer")]
  /\ UNCHANGED <<roomVarsButCodec, codec, peerVars>>

\* close(p.msgCh)
ExitCloseMsgCh ==
  /\ reader.pc = "closeMsgCh"
  /\ reader' = [reader EXCEPT !.pc = "closeDone", !.exits = Append(@, "close(msgCh)")]
  /\ UNCHANGED <<roomVarsButCodec, codec, peerVars>>

\* close(p.done)
ExitCloseDone ==
  /\ reader.pc = "closeDone"
  /\ reader' = [reader EXCEPT !.pc = "exited", !.exits = Append(@, "close(done)")]
  /\ UNCHANGED <<roomVarsButCodec, codec, peerVars>>

\* The context of the server is cancelled.
CtxCancel ==
  /\ reader.pc # "none"
  /\ ~reader.ctxDone
  /\ reader' = [reader EXCEPT !.ctxDone = TRUE]
  /\ UNCHANGED <<roomVarsButCodec, codec, peerVars>>

\* Peer.Detached: the Client attached another Peer.
Detached ==
  /\ reader.pc # "none"
  /\ ~reader.detached
  /\ reader' = [reader EXCEPT !.detached = TRUE]
  /\ UNCHANGED <<roomVarsButCodec, codec, peerVars>>

\* The Client was removed from the room: its done is closed.
ClientDone ==
  /\ reader.pc # "none"
  /\ ~reader.clientDone
  /\ reader' = [reader EXCEPT !.clientDone = TRUE]
  /\ UNCHANGED <<roomVarsButCodec, codec, peerVars>>

NextRead ==
  \/ ReaderStart
  \/ ReadMessage
  \/ ReadMessageError
  \/ UnmarshalMsg
  \/ UnmarshalError
  \/ SelectBreak
  \/ SelectForward
  \/ ExitDetach
  \/ ExitCloseMsgCh
  \/ ExitCloseDone
  \/ CtxCancel
  \/ Detached
  \/ ClientDone
  \/ PeerClose

\* The goroutine goes on: a select with a ready case returns, and the
\* statements after the loop do not block.
ReadFairness ==
  /\ WF_vars(SelectBreak)
  /\ WF_vars(ExitDetach)
  /\ WF_vars(ExitCloseMsgCh)
  /\ WF_vars(ExitCloseDone)

SpecRead == Init /\ [][NextRead]_vars /\ ReadFairness

\* ------------------------------------------------------------------ socket
\* One Peer and everything it writes to its socket.  Every method that writes
\* holds muWrite from its first statement to its return, so each is one step.
\* The frames written in a run.
MaxWritten == 4

CloseFrame(code) == [type |-> "close", code |-> code, seq |-> 0]

DataFrame(type, seq) == [type |-> type, code |-> "", seq |-> seq]

RECURSIVE EventFrames(_)
EventFrames(frames) ==
  IF frames = << >> THEN << >>
  ELSE <<DataFrame("event", Head(frames).seq)>> \o EventFrames(Tail(frames))

\* What a method wrote when it found the Peer as p and left it as q after
\* writing the data frames: the close frame follows when the method closed
\* the Peer.
WithClose(p, q, data) ==
  IF ~p.closed /\ q.closed THEN Append(data, CloseFrame(q.closeCode)) ELSE data

CloseFrameAlways(p, code) == <<CloseFrame(code)>>

\* closeWithMessage: if p.closed { return }; writeMessage(CloseMessage, ...)
CloseFrameWritten(p, code) == IF p.closed THEN << >> ELSE <<CloseFrame(code)>>

\* NewPeer; a Peer that AttachPeer rejects is closed with CloseGoingAway.
SocketConnect ==
  /\ ~peer.exists
  /\ \E n \in 0..1 :
       /\ peer' = NewPeer(evbuf, n)
       /\ socket' = IF AttachPeer(evbuf, n) THEN << >>
                    ELSE CloseFrameWritten(peer, "CloseGoingAway")
  /\ UNCHANGED <<roomVarsButSocket, evbuf, wire>>

\* Client.Send
SocketClientSend ==
  /\ evbuf.last < MaxEvents
  /\ evbuf' = Write(evbuf, evbuf.last + 1)
  /\ UNCHANGED <<roomVarsButSocket, peer, wire, socket>>

\* Peer.SendReady: an error when the Peer is closed; ok: writeMessage succeeds.
SendReady ==
  /\ peer.exists
  /\ Len(socket) < MaxWritten
  /\ \E ok \in BOOLEAN :
       socket' = IF peer.closed \/ ~ok THEN socket
                 ELSE Append(socket, DataFrame("ready", 0))
  /\ UNCHANGED <<roomVarsButSocket, peerVars>>

\* Peer.SendSystemEvent: nothing when the Peer is closed; a failed write
\* closes the Peer.
SocketSystemEvent ==
  /\ peer.exists
  /\ Len(socket) < MaxWritten
  /\ \E ok \in BOOLEAN :
       LET q == IF peer.closed \/ ok THEN peer ELSE SendSystemEvent(peer)
           data == IF peer.closed \/ ~ok THEN << >> ELSE <<DataFrame("system", 0)>>
       IN /\ peer' = q
          /\ socket' = socket \o WithClose(peer, q, data)
  /\ UNCHANGED <<roomVarsButSocket, evbuf, wire>>

\* Peer.SendEvents
SocketSendEvents ==
  /\ peer.exists
  /\ ~peer.stopped
  /\ \E fail \in 0..EventBufSize :
       LET r == SendEvents(peer, evbuf, fail) IN
       /\ Len(socket) + Len(r.written) < MaxWritten
       /\ peer' = [r.peer EXCEPT !.stopped = r.err]
       /\ wire' = wire \o r.written
       /\ socket' = socket \o WithClose(peer, r.peer, EventFrames(r.written))
  /\ UNCHANGED <<roomVarsButSocket, evbuf>>

\* Close, CloseWithClientError and the two error paths of the read loop:
\* closeWithMessage.
SocketClose ==
  /\ peer.exists
  /\ \E q \in {Close(peer), CloseWithClientError(peer), ReadFails(peer),
               UnmarshalFails(peer)} :
       /\ peer' = q
       /\ socket' = socket \o CloseFrameWritten(peer, q.closeCode)
       /\ Len(socket') <= MaxWritten + 1
  /\ UNCHANGED <<roomVarsButSocket, evbuf, wire>>

NextSocket ==
  \/ SocketConnect
  \/ SocketClientSend
  \/ SendReady
  \/ SocketSystemEvent
  \/ SocketSendEvents
  \/ SocketClose

SpecSocket == Init /\ [][NextSocket]_vars

\* ------------------------------------------------------------------ claims
PlayerIDs == DOMAIN players

NumPlayers == Cardinality(DOMAIN players)

\* C1: whenever players is non-empty, master is the Client registered in
\* players under its own id.
C1_MasterInPlayers ==
  (~crashed /\ PlayerIDs # {}) =>
    /\ master # Nil
    /\ clients[master].id \in PlayerIDs
    /\ players[clients[master].id] = master

\* C2: masterOrder holds exactly the keys of players, each once, in the order
\* in which their current occupancy began.
C2_MasterOrder ==
  ~crashed =>
    /\ {masterOrder[i] : i \in 1..Len(masterOrder)} = PlayerIDs
    /\ Len(masterOrder) = NumPlayers
    /\ DOMAIN since = PlayerIDs
    /\ \A i, j \in 1..Len(masterOrder) :
         i < j => since[masterOrder[i]] < since[masterOrder[j]]

\* The creator left and joined again, behind the player that stayed and
\* became master.
C2_Witness ==
  /\ ~crashed
  /\ masterOrder = <<"b", "a">>
  /\ master = players["b"]
  /\ since["b"] < since["a"]

\* A step that replaces the Client of a player by a new one (a rejoin).
RejoinStep ==
  \E id \in PlayerIDs : id \in DOMAIN players' /\ players'[id] # players[id]

C4_LastMsgKeys == ~crashed => DOMAIN lastMsg \subseteq PlayerIDs

RECURSIVE SumNodeCount(_)
SumNodeCount(S) ==
  IF S = {} THEN 0
  ELSE LET c == CHOOSE x \in S : TRUE
       IN clients[c].nodeCount + SumNodeCount(S \ {c})

\* C5: RoomInfo.Watchers is the sum of nodeCount over the Clients in watchers.
C5_Watchers == ~crashed => info.Watchers = SumNodeCount(Range(watchers))

\* A watcher of two nodes is present, and a watcher Client that was replaced
\* or removed is still known to its senders.
C5_Witness ==
  /\ ~crashed
  /\ DOMAIN watchers # {}
  /\ info.Watchers = 2
  /\ \E c \in 1..Len(clients) : ~clients[c].isPlayer /\ clients[c].removed

RECURSIVE IsSubSeq(_, _)
IsSubSeq(s, t) ==
  IF s = << >> THEN TRUE
  ELSE IF t = << >> THEN FALSE
  ELSE IF Head(s) = Head(t) THEN IsSubSeq(Tail(s), Tail(t))
  ELSE IsSubSeq(s, Tail(t))

\* What one step hands to each client is in the order of production.
OrderKept(st) == \A h \in Handles : IsSubSeq(st.out[h], st.produced)

C8_SwitchMasterOnly ==
  \A c \in 1..Len(clients), seq \in MsgSeqs, target \in ClientIDs :
    (ClientMsg(c) /\ c # master) =>
      LET st == msgSwitchMaster(Base(clients[c].id), c, seq, target, {}) IN
      /\ st.master = master
      /\ \A h \in Handles :
           st.out[h] = IF h = c THEN <<NewEvPermissionDenied(seq, target)>> ELSE << >>

\* The room state C9 lists, lastMsg apart.
RoomState(st) ==
  <<st.info, st.deadline, st.publicProps, st.privateProps,
    st.players, st.watchers, st.masterOrder, st.master>>

\* What a RoomProp of a client that is not the master hands out and leaves.
DeniedRoomProp(st, c, seq, p) ==
  /\ \A h \in Handles :
       st.out[h] = IF h = c THEN <<NewEvPermissionDenied(seq, p.name)>> ELSE << >>
  /\ RoomState(st) = RoomState(Cur(lastMsg))

\* C9 as stated: a RoomProp of a client that is not the master is answered
\* with EvPermissionDenied to the sender only and leaves the room state,
\* lastMsg included, unchanged.
C9_Original ==
  \A c \in 1..Len(clients), seq \in MsgSeqs, p \in RoomPropPayloads :
    (ClientMsg(c) /\ c # master) =>
      LET st == msgRoomProp(Base(clients[c].id), c, seq, p, {}) IN
      /\ DeniedRoomProp(st, c, seq, p)
      /\ st.lastMsg = lastMsg

\* C9 amended: the message is answered with EvPermissionDenied to the sender
\* only and leaves the room state unchanged but for lastMsg of the sender's
\* id, which is the current time when the sender has an entry.
C9_NonMasterRoomProp ==
  \A c \in 1..Len(clients), seq \in MsgSeqs, p \in RoomPropPayloads :
    (ClientMsg(c) /\ c # master) =>
      LET id == clients[c].id
          st == msgRoomProp(Base(id), c, seq, p, {}) IN
      /\ DeniedRoomProp(st, c, seq, p)
      /\ \A k \in ClientIDs \ {id} :
           /\ k \in DOMAIN st.lastMsg <=> k \in DOMAIN lastMsg
           /\ k \in DOMAIN lastMsg => st.lastMsg[k] = lastMsg[k]
      /\ id \in DOMAIN lastMsg => id \in DOMAIN st.lastMsg
      /\ id \in DOMAIN st.lastMsg => st.lastMsg[id] = now

\* A player that is not the master, whose last message is older than now,
\* can send a RoomProp.
C9_Witness ==
  \E c \in 1..Len(clients) :
    /\ ClientMsg(c)
    /\ c # master
    /\ clients[c].id \in DOMAIN lastMsg
    /\ players[clients[c].id] = c
    /\ lastMsg[clients[c].id] < now

\* C10: when a player is removed and players remain, the master is the first
\* of masterOrder after the removal (the oldest remaining player) if the
\* removed player was the master and is unchanged otherwise, and every
\* remaining player and watcher is handed EvLeft with the removed id and the
\* id of that master.
C10_Election ==
  ~crashed =>
    \A c \in Range(players) :
      NumPlayers >= 2 =>
        LET cid == clients[c].id
            st == removePlayer(Cur(lastMsg), c, "leave", {}) IN
        /\ ~st.crashed
        /\ st.master = IF c = master THEN st.players[st.masterOrder[1]] ELSE master
        /\ c = master =>
             \A k \in DOMAIN st.players : since[st.masterOrder[1]] <= since[k]
        /\ \A h \in Range(st.players) \cup Range(st.watchers) :
             st.out[h] = <<NewEvLeft(cid, clients[st.master].id, "leave")>>

\* C6: the regular events a Peer attached with lastEventSeq = n writes to the
\* socket, over all its SendEvents calls, carry the sequence numbers n+1,
\* n+2, ... in this order, and each is the event of that number.
C6_PeerSeqs ==
  \A i \in 1..Len(wire) :
    /\ wire[i].seq = peer.lastEvSeq + i
    /\ wire[i].ev = wire[i].seq

\* A Peer attached with lastEventSeq = 3 while 5 events were buffered wrote
\* 4 and 5, and 6 in a later call.
C6_Witness ==
  /\ peer.lastEvSeq = 3
  /\ Len(wire) = 3
  /\ wire[3].seq = 6
  /\ peer.evSeqNum = 6
  /\ ~peer.closed

\* The replies that reject a Join or a Watch.
ErrorReplies == {"FailedPrecondition", "AlreadyExists", "ResourceExhausted", "InvalidArgument"}

\* C11: a Join is rejected with FailedPrecondition when the room is not
\* Joinable, else with AlreadyExists when the sender id is in watchers, else
\* with ResourceExhausted when the sender id is not in players and
\* len(players) >= MaxPlayers; a rejected Join sends exactly one error reply
\* and no Joined reply, hands no event to any client, and leaves players,
\* masterOrder, master and RoomInfo unchanged.
C11_JoinRejected ==
  \A cid \in ClientIDs, ok \in BOOLEAN :
    JoinMsg(cid) =>
      LET st == msgJoin(Base(cid), cid, ok, {}, now) IN
      /\ ~info.Joinable => st.reply = <<"FailedPrecondition">>
      /\ (info.Joinable /\ cid \in DOMAIN watchers) => st.reply = <<"AlreadyExists">>
      /\ (info.Joinable /\ cid \notin DOMAIN watchers /\ cid \notin PlayerIDs
            /\ NumPlayers >= info.MaxPlayers) => st.reply = <<"ResourceExhausted">>
      /\ Len(st.reply) = 1
      /\ st.reply[1] \in ErrorReplies \cup {"Joined"}
      /\ st.reply[1] \in ErrorReplies =>
           /\ st.produced = << >>
           /\ st.out = NoOut
           /\ st.players = players
           /\ st.masterOrder = masterOrder
           /\ st.master = master
           /\ st.info = info

\* The room is not Joinable, is full and has a watcher: every Join but a
\* rejoin meets more than one of the reasons to reject it.
C11_Witness ==
  /\ Running
  /\ Len(clients) < MaxClients
  /\ ~info.Joinable
  /\ DOMAIN watchers # {}
  /\ NumPlayers >= info.MaxPlayers
  /\ ~recv.some

\* C12: a Join whose sender id is in players replaces the old Client, which is
\* Removed, by the new one under the same id; the keys of players and
\* masterOrder are unchanged; the new Client is master iff the old one was;
\* EvRejoined and no EvJoined is handed to every member; and this also when
\* the room is full.
C12_Rejoin ==
  \A cid \in PlayerIDs :
    (JoinMsg(cid) /\ info.Joinable /\ cid \notin DOMAIN watchers) =>
      LET st == msgJoin(Base(cid), cid, TRUE, {}, now)
          old == players[cid]
          new == Len(clients) + 1 IN
      /\ st.reply = <<"Joined">>
      /\ st.clients[old].removed
      /\ st.clients[new] = NewClient(cid, TRUE, 0)
      /\ st.players = [players EXCEPT ![cid] = new]
      /\ st.masterOrder = masterOrder
      /\ st.info.Players = info.Players
      /\ st.master = IF master = old THEN new ELSE master
      /\ Len(st.produced) = 1
      /\ st.produced[1].type = "EvRejoined"
      /\ st.produced[1].id = cid
      /\ \A h \in Handles :
           st.out[h] = IF h \in Range(st.players) \cup Range(st.watchers)
                       THEN st.produced ELSE << >>

\* The room is full, and the player that is not the first of masterOrder is
\* the master and can rejoin.
C12_Witness ==
  /\ Running
  /\ ~recv.some
  /\ Len(clients) < MaxClients
  /\ info.Joinable
  /\ NumPlayers = 2
  /\ NumPlayers >= info.MaxPlayers
  /\ master = players[masterOrder[2]]

\* C13: no client id is a key of both players and watchers; a Watch is
\* rejected when the room is not Watchable or the sender id is a player, and
\* a Join when the sender id is a watcher.
C13_PlayerXorWatcher ==
  ~crashed =>
    /\ PlayerIDs \cap DOMAIN watchers = {}
    /\ \A cid \in ClientIDs, n \in NodeCounts, ok \in BOOLEAN :
         JoinMsg(cid) =>
           /\ (~info.Watchable \/ cid \in PlayerIDs) =>
                LET st == msgWatch(Base(cid), cid, n, ok) IN
                /\ st.reply = IF ~info.Watchable THEN <<"FailedPrecondition">>
                              ELSE <<"AlreadyExists">>
                /\ st.watchers = watchers
           /\ cid \in DOMAIN watchers =>
                LET st == msgJoin(Base(cid), cid, ok, {}, now) IN
                /\ st.reply \in {<<"FailedPrecondition">>, <<"AlreadyExists">>}
                /\ st.players = players

\* A player and a watcher are in the room, and the watcher replaced an older
\* Client of its id.
C13_Witness ==
  /\ ~crashed
  /\ NumPlayers = 1
  /\ DOMAIN watchers # {}
  /\ \E c \in 1..Len(clients) : clients[c].removed /\ clients[c].id \in DOMAIN watchers

\* The events of the given type among evs.
OfType(evs, type) == SelectSeq(evs, LAMBDA e : e.type = type)

\* How often id occurs in the list targets.
Occurrences(targets, id) == Len(SelectSeq(targets, LAMBDA t : t = id))

\* C14: a Targets message of a current member hands EvMessage(sender, data)
\* to each target that is a key of players (once for each time it is
\* listed) and to no other client, and hands the sender EvTargetNotFound with
\* the sequence number of the message and the targets that are no key of
\* players, in the order of the message, iff there is such a target.
C14_Targets ==
  \A c \in 1..Len(clients), seq \in MsgSeqs, targets \in TargetLists, d \in DataSet :
    (ClientMsg(c) /\ IsCurrent(Cur(lastMsg), c)) =>
      LET st == msgTargets(Base(clients[c].id), c, seq, targets, d, {})
          absent == SelectSeq(targets, LAMBDA t : t \notin PlayerIDs) IN
      /\ \A h \in Handles :
           LET msgs == OfType(st.out[h], "EvMessage") IN
           IF h \in Range(players)
           THEN /\ Len(msgs) = Occurrences(targets, clients[h].id)
                /\ \A i \in 1..Len(msgs) : msgs[i] = NewEvMessage(clients[c].id, d)
           ELSE msgs = << >>
      /\ \A h \in Handles :
           OfType(st.out[h], "EvTargetNotFound") =
             IF h = c /\ absent # << >>
             THEN <<NewEvTargetNotFound(seq, absent, <<targets, d>>)>>
             ELSE << >>
      /\ \A h \in Handles :
           Len(st.out[h]) = Len(OfType(st.out[h], "EvMessage"))
                              + Len(OfType(st.out[h], "EvTargetNotFound"))

\* Player a can send Targets to c, a player, and b, who is none.
C14_Witness ==
  /\ Running
  /\ ~recv.some
  /\ {"a", "c"} \subseteq PlayerIDs
  /\ "b" \notin PlayerIDs
  /\ DOMAIN watchers # {}

\* Everything a handler can change in the room.
WholeRoom(st) == <<RoomState(st), st.lastMsg, st.clients, st.done, st.crashed>>

\* The events handed out are ev, to client c, and nothing else.
OnlyTo(st, c, ev) ==
  \A h \in Handles : st.out[h] = IF h = c THEN <<ev>> ELSE << >>

EventsOf(log) == [i \in 1..Len(log) |-> log[i].ev]

\* The sequence numbers of a Client's record.
SeqsOf(log) == [i \in 1..Len(log) |-> log[i].seq]

\* Create by M, Join by A, Broadcast by M of the data d (which stands for
\* [0x01,0x02]) have been dispatched and nothing else: M is Client 1, A is
\* Client 2, and M has been handed EvJoined(M), EvJoined(A), EvMessage(M, d).
CreateJoinBroadcast ==
  /\ Len(clients) = 2
  /\ clients[2].isPlayer
  /\ ~clients[1].removed
  /\ ~clients[2].removed
  /\ EventsOf(sent[1]) = <<NewEvJoined(clients[1].id), NewEvJoined(clients[2].id),
                           NewEvMessage(clients[1].id, "d")>>

\* C16 as stated: after Create by M, Join by A and Broadcast by M, client A
\* has been handed EvJoined(M), EvJoined(A), EvMessage(M, d), numbered 1, 2, 3.
C16_Original ==
  CreateJoinBroadcast =>
    /\ EventsOf(sent[2]) = <<NewEvJoined(clients[1].id), NewEvJoined(clients[2].id),
                             NewEvMessage(clients[1].id, "d")>>
    /\ SeqsOf(sent[2]) = <<1, 2, 3>>

\* C16 amended: after that sequence client A has been handed EvJoined(A) and
\* EvMessage(M, d), numbered 1 and 2 (EvJoined(M) was broadcast at Create,
\* before A was a member), and M the three events numbered 1, 2, 3.
C16_Scenario ==
  CreateJoinBroadcast =>
    /\ EventsOf(sent[2]) = <<NewEvJoined(clients[2].id), NewEvMessage(clients[1].id, "d")>>
    /\ SeqsOf(sent[2]) = <<1, 2>>
    /\ SeqsOf(sent[1]) = <<1, 2, 3>>

\* The sequence has been dispatched in a room of at most 2 players.
C16_Witness ==
  /\ CreateJoinBroadcast
  /\ info.Joinable
  /\ NumPlayers = 2
  /\ Len(sent[2]) = 2

\* C17: the step that takes the last player out of players closes done, and
\* no other step closes it; so done is open as long as players has not been
\* emptied, and closed only when a player Client has been removed.
C17_DoneClosure ==
  [][/\ (PlayerIDs # {} /\ DOMAIN players' = {}) => done'
     /\ (~done /\ done') => (PlayerIDs # {} /\ DOMAIN players' = {})
     /\ done' => \E c \in 1..Len(clients') : clients'[c].isPlayer /\ clients'[c].removed]_vars

\* The last of two players has been removed while a watcher stays: done is
\* closed.
C17_Witness ==
  /\ done
  /\ ~crashed
  /\ PlayerIDs = {}
  /\ DOMAIN watchers # {}
  /\ Len(clients) = 3

\* C18: once done is closed the room leaves the Repository, no goroutine
\* stays inside SendMessage forever, MsgLoop ends once the wait group is
\* empty, and it does not end before.
C18_Drain ==
  /\ done ~> ~inRepo
  /\ \A c \in Handles : (done /\ caller[c] = "sending") ~> (caller[c] # "sending")
  /\ (done /\ wgClient = 0) ~> (loop = "exited")
  /\ [](loop = "exited" => wgClient = 0)

\* The same where the process has not panicked.
C18_DrainUnlessPanic ==
  /\ done ~> (~inRepo \/ crashed)
  /\ \A c \in Handles : (done /\ caller[c] = "sending") ~> (caller[c] # "sending" \/ crashed)
  /\ (done /\ wgClient = 0) ~> (loop = "exited" \/ crashed)
  /\ [](loop = "exited" => wgClient = 0)

\* The writes to players and watchers and the channel sends a handler made.
Logs(st) == [writes |-> {st.writes[i] : i \in 1..Len(st.writes)}, sends |-> st.sends]

\* What msgLeave logs for the messages MsgLoop can dispatch in this state.
LeaveLogs ==
  IF ~Created THEN {}
  ELSE {Logs(msgLeave(Base(clients[c].id), c, "leave", {})) : c \in 1..Len(clients)}

\* What the other handlers log, for every message of the run's inputs (no
\* Send fails).
OtherLogs ==
  IF ~Created
  THEN {Logs(msgCreate(Base(cid), cid, ok, {}, now)) : cid \in CreatorIDs, ok \in BOOLEAN}
  ELSE
    {Logs(msgJoin(Base(cid), cid, ok, {}, now)) : cid \in ClientIDs, ok \in BOOLEAN}
    \cup {Logs(msgWatch(Base(cid), cid, n, TRUE)) : cid \in ClientIDs, n \in NodeCounts}
    \cup {Logs(msgAdminKick(Base(NoID), t, {})) : t \in ClientIDs}
    \cup UNION {
      LET b == Base(clients[c].id) IN
        {Logs(msgClientError(b, c, "error", {})),
         Logs(msgClientTimeout(b, c, {})), Logs(msgBroadcast(b, c, "d", {}))}
        \cup {Logs(msgNodeCount(b, c, n)) : n \in NodeCounts}
        \cup {Logs(msgRoomProp(b, c, 1, p, {})) : p \in RoomPropPayloads}
        \cup {Logs(msgTargets(b, c, 1, t, "d", {})) : t \in TargetLists}
        \cup {Logs(msgSwitchMaster(b, c, 1, t, {})) : t \in ClientIDs}
        \cup {Logs(msgKick(b, c, 1, t, "kick", {})) : t \in ClientIDs}
      : c \in 1..Len(clients)}

LoopLogs == OtherLogs \cup LeaveLogs

\* What the removal goroutines of sendTo log.
RemovalLogs == {Logs(sendToRemoval(BaseRemove(c), c, {})) : c \in pending}

\* C19: every write to players or watchers is made by the goroutine of
\* MsgLoop while muClients is held in write mode.
C19_MapWrites ==
  ~crashed =>
    \A l \in LoopLogs \cup RemovalLogs :
      \A w \in l.writes : w.by = "MsgLoop" /\ w.lock = "W"

\* The writes of the handlers other than msgLeave are made by MsgLoop under
\* Lock, those of the removal goroutines under Lock.
C19_ButLeave ==
  ~crashed =>
    /\ \A l \in OtherLogs : \A w \in l.writes : w.by = "MsgLoop" /\ w.lock = "W"
    /\ \A l \in RemovalLogs : \A w \in l.writes : w.by = "goroutine" /\ w.lock = "W"

\* The removal of a client whose Send fails during a broadcast is left to a
\* goroutine: the handler itself writes to neither map.
RemovalDeferred ==
  Created =>
    \A c \in 1..Len(clients) :
      LET b == Base(clients[c].id) IN
        \A F \in Fails(msgBroadcast(b, c, "d", {})) :
          LET st == msgBroadcast(b, c, "d", F)
          IN st.writes = << >> /\ F \subseteq st.pending

\* C20: no handler holds muClients while it sends on a channel that can be
\* full, and the removal of a client whose Send failed is left to a goroutine
\* that takes the lock itself.
C20_SendsUnlocked ==
  ~crashed =>
    /\ \A l \in LoopLogs : \A s \in l.sends : s.mayBlock => s.lock = "none"
    /\ \A l \in RemovalLogs : \A w \in l.writes : w.by = "goroutine" /\ w.lock = "W"
    /\ RemovalDeferred

\* The same without the sends of msgRoomProp on the players' newDeadline.
C20_ButNewDeadline ==
  ~crashed =>
    /\ \A l \in LoopLogs :
         \A s \in l.sends : (s.mayBlock /\ s.ch # "newDeadline") => s.lock = "none"
    /\ \A l \in RemovalLogs : \A w \in l.writes : w.by = "goroutine" /\ w.lock = "W"
    /\ RemovalDeferred

\* Client c is not registered in players or watchers.
Unregistered(c) == c \in 1..Len(clients) /\ ~IsCurrent(Cur(lastMsg), c)

\* A failed Send changes nothing for the other clients: the handler hands
\* the same events to every Client's Send whichever Send fails.
SameEvents ==
  Created =>
    \A c \in 1..Len(clients) :
      LET b == Base(clients[c].id) IN
        /\ \A F \in Fails(msgBroadcast(b, c, "d", {})) :
             msgBroadcast(b, c, "d", F).out = msgBroadcast(b, c, "d", {}).out
        /\ \A t \in TargetLists :
             \A F \in Fails(msgTargets(b, c, 1, t, "d", {})) :
               /\ msgTargets(b, c, 1, t, "d", F).out = msgTargets(b, c, 1, t, "d", {}).out
               /\ msgTargets(b, c, 1, t, "d", F).writes = << >>
               /\ F \subseteq msgTargets(b, c, 1, t, "d", F).pending

\* C21: a failed Send leaves the events of the other clients as they are, the
\* handler does not remove the failing client itself, and the failing client
\* is no longer registered in the end.
C21_FailedSend ==
  /\ [](~crashed => (SameEvents /\ RemovalDeferred))
  /\ \A c \in Handles :
       (c \in pending) ~> Unregistered(c)

\* The same where the process has not panicked.
C21_UnlessPanic ==
  /\ [](~crashed => (SameEvents /\ RemovalDeferred))
  /\ \A c \in Handles :
       (c \in pending) ~> (crashed \/ Unregistered(c))

\* A write of the publisher.
InfoWritten == updater'.writes = updater.writes + 1

\* Every write carries a RoomInfo newer than the write before (the calls made
\* before a snapshot cause no write of their own), and one that is not older
\* than the last call made during the write before (one write for all of them).
Coalesced ==
  InfoWritten => (updater'.written > updater.written /\ updater'.written >= updater.atEnd)

\* The v-th call of updateRoomInfo has been made while the publisher is
\* writing an older RoomInfo.
CalledDuringWrite(v) == updater.pc = "write" /\ lastRoomInfo = v /\ updater.ri < v

Attached == peer.exists /\ ~peer.stopped

\* The buffer no longer holds the event after the Peer's evSeqNum.
TooOld == ReadError(evbuf, peer.evSeqNum)

\* What C24 says of a call of SendEvents that leaves r, when the write of
\* frame number fail fails (a closed Peer has no socket to write to).
SendEventsAsClaimed(r, fail) ==
  LET batch == Read(evbuf, peer.evSeqNum) IN
  /\ r.err <=> TooOld
  /\ r.err => /\ r.written = << >>
              /\ r.peer.closed
              /\ r.peer.closeCode = "CloseGoingAway"
  /\ (~peer.closed /\ ~TooOld /\ fail \in 1..Len(batch)) =>
       /\ r.peer.closed
       /\ r.peer.closeCode = "CloseInternalServerErr"
       /\ r.peer.evSeqNum = peer.evSeqNum
  /\ r.peer.evSeqNum # peer.evSeqNum =>
       /\ Len(r.written) = Len(batch)
       /\ r.peer.evSeqNum = peer.evSeqNum + Len(batch)

\* C24 as stated, for every Peer, closed or not.
C24_Original ==
  Attached =>
    \A fail \in 0..EventBufSize : SendEventsAsClaimed(SendEvents(peer, evbuf, fail), fail)

\* C24: as stated for a Peer that is not closed; for a closed Peer SendEvents
\* returns nil, writes nothing and leaves the Peer as it is.
C24_SendEvents ==
  Attached =>
    \A fail \in 0..EventBufSize :
      LET r == SendEvents(peer, evbuf, fail) IN
        IF peer.closed
        THEN ~r.err /\ r.written = << >> /\ r.peer = peer
        ELSE SendEventsAsClaimed(r, fail)

\* A Peer that had written events was closed by SendEvents because the buffer
\* had become too old for it.
C24_Witness ==
  /\ peer.exists
  /\ wire # << >>
  /\ peer.stopped
  /\ peer.closeCode = "CloseGoingAway"
  /\ TooOld

\* The close code C23 assigns to a cause of termination.
AssignedCode(msg) ==
  CASE msg \in {"attach rejected", "too old"} -> {"CloseGoingAway"}
    [] msg = "removed"                        -> {"CloseNormalClosure"}
    [] msg = "decode failure"                 -> {"CloseInvalidFramePayloadData"}
    [] msg = "write failure"                  -> {"CloseInternalServerErr"}
    [] OTHER -> {"CloseInvalidFramePayloadData", "CloseInternalServerErr"}

\* C23: the close frame of a Peer carries the code assigned to its cause, and
\* the codes of "do not reconnect" are written for a rejected attach, a buffer
\* too old and a removed client only; each cause closes a Peer that is open
\* with its code.
C23_CloseCodes ==
  /\ peer.closed => peer.closeCode \in AssignedCode(peer.closeMsg)
  /\ (peer.exists /\ ~peer.closed) =>
       /\ Close(peer).closeCode = "CloseNormalClosure"
       /\ UnmarshalFails(peer).closeCode = "CloseInvalidFramePayloadData"
       /\ SendSystemEvent(peer).closeCode = "CloseInternalServerErr"
       /\ \A fail \in 0..EventBufSize :
            LET r == SendEvents(peer, evbuf, fail)
            IN r.peer.closed => r.peer.closeCode \in AssignedCode(r.peer.closeMsg)
  /\ \A n \in 0..MaxEvents :
       NewPeer(evbuf, n).closed =>
         /\ ~AttachPeer(evbuf, n)
         /\ NewPeer(evbuf, n).closeCode = "CloseGoingAway"

\* A Peer that had written events was closed because its Client was removed.
C23_Witness ==
  /\ peer.closed
  /\ peer.closeMsg = "removed"
  /\ peer.closeCode = "CloseNormalClosure"
  /\ wire # << >>

\* C25: decoding an event frame whose type byte is none of the defined EvType
\* values fails with an error instead of returning an event.
C25_UnknownRejected ==
  (codec.op = "decoded" /\ codec.data # << >> /\ codec.data[1] \notin EvTypes) => codec.err

\* What does hold: a frame is rejected exactly when it is empty or, with a
\* type byte of 30 or more, too short for the sequence number.
C25_OnlyShortRejected ==
  codec.op = "decoded" =>
    (codec.err <=> (codec.data = << >>
                      \/ (codec.data[1] >= regularEvType /\ Len(codec.data) < 5)))

\* C26: a response event is framed as one type byte followed directly by a
\* payload whose first 3 bytes are the big-endian sequence number of the
\* message that caused it, with no 4-byte event sequence number in between.
C26_ResponseFrame ==
  codec.op = "framed" =>
    /\ codec.data[1] >= responseEvType
    /\ SubSeq(codec.data, 2, 4) = put24(codec.seq)
    /\ get24(From(codec.data, 1)) = codec.seq

\* What does hold: the event sequence number of the Peer is in the 4 bytes
\* after the type byte and the sequence number of the message in the 3 bytes
\* after them, and UnmarshalEvent gives both back.
C26_FrameWithSeq ==
  codec.op = "framed" =>
    /\ codec.data[1] = codec.etype
    /\ codec.etype >= responseEvType
    /\ SubSeq(codec.data, 2, 5) = put32(codec.seqNum)
    /\ SubSeq(codec.data, 6, 8) = put24(codec.seq)
    /\ LET r == UnmarshalEvent(codec.data)
       IN /\ ~r.err
          /\ r.kind = "RegularEvent"
          /\ r.seq = codec.seqNum
          /\ get24(r.payload) = codec.seq

\* The dict d after the properties m were applied, as the claim C27 has it.
AppliedAsClaimed(d, m, after) ==
  /\ \A k \in DOMAIN m :
       IF Len(m[k]) = 0 THEN k \notin DOMAIN after
       ELSE k \in DOMAIN after /\ after[k] = m[k]
  /\ \A k \in (DOMAIN d) \ (DOMAIN m) : k \in DOMAIN after /\ after[k] = d[k]
  /\ DOMAIN after \subseteq (DOMAIN d) \cup (DOMAIN m)

\* The same as the code has it: a key given with a value of length 0 is
\* deleted when it is present, and stored with that value when it is not.
AppliedAsCoded(d, m, after) ==
  /\ \A k \in DOMAIN m :
       IF Len(m[k]) = 0 /\ k \in DOMAIN d THEN k \notin DOMAIN after
       ELSE k \in DOMAIN after /\ after[k] = m[k]
  /\ \A k \in (DOMAIN d) \ (DOMAIN m) : k \in DOMAIN after /\ after[k] = d[k]
  /\ DOMAIN after \subseteq (DOMAIN d) \cup (DOMAIN m)

\* C27: when a RoomProp of the master is applied, every key given with a
\* value of length 0 is absent from the resulting dict, whether or not it was
\* present before, every key given with a non-empty value maps to that value,
\* and the keys not mentioned are unchanged.
C27_PropsApplied ==
  \A c \in 1..Len(clients), seq \in MsgSeqs, p \in RoomPropPayloads :
    (ClientMsg(c) /\ ~SenderIsNotMaster(Base(clients[c].id), c)) =>
      LET st == msgRoomProp(Base(clients[c].id), c, seq, p, {}) IN
        /\ DOMAIN p.PublicProps # {} =>
             AppliedAsClaimed(publicProps, p.PublicProps, st.publicProps)
        /\ DOMAIN p.PrivateProps # {} =>
             AppliedAsClaimed(privateProps, p.PrivateProps, st.privateProps)

C27_PropsAsCoded ==
  \A c \in 1..Len(clients), seq \in MsgSeqs, p \in RoomPropPayloads :
    (ClientMsg(c) /\ ~SenderIsNotMaster(Base(clients[c].id), c)) =>
      LET st == msgRoomProp(Base(clients[c].id), c, seq, p, {}) IN
        /\ IF DOMAIN p.PublicProps # {}
           THEN AppliedAsCoded(publicProps, p.PublicProps, st.publicProps)
           ELSE st.publicProps = publicProps
        /\ IF DOMAIN p.PrivateProps # {}
           THEN AppliedAsCoded(privateProps, p.PrivateProps, st.privateProps)
           ELSE st.privateProps = privateProps

\* The statements after the loop are executed in the order of ExitPath, each
\* once, after the loop stopped for one of the causes.
ExitInOrder ==
  /\ reader.pc = "none" => reader = NoReader
  /\ reader.pc \in {"read", "unmarshal", "select"} => reader.exits = << >>
  /\ reader.pc = "detach" => reader.exits = << >> /\ reader.cause \in StopCauses
  /\ reader.pc = "closeMsgCh" => reader.exits = SubSeq(ExitPath, 1, 1)
  /\ reader.pc = "closeDone" => reader.exits = SubSeq(ExitPath, 1, 2)
  /\ reader.pc = "exited" => reader.exits = ExitPath

\* No message is put on msgCh once the loop stopped.
NoForwardAfterStop ==
  reader.pc \in AfterLoop =>
    reader'.pc \in AfterLoop /\ reader'.forwarded = reader.forwarded

\* C28: whatever makes the read loop stop, the loop then detaches from the
\* Client, closes msgCh and closes done, in that order and each exactly once;
\* no message is put on msgCh after it stopped; and a forward that is pending
\* when the Peer is detached or the Client is done does not block forever.
C28_ReadLoopExit ==
  /\ []ExitInOrder
  /\ [][NoForwardAfterStop]_vars
  /\ (reader.pc = "detach") ~> (reader.pc = "exited" /\ reader.exits = ExitPath)
  /\ (reader.pc = "select" /\ (reader.detached \/ reader.clientDone))
       ~> (reader.pc # "select")

\* The Peer was detached while a forward was pending after an earlier
\* message was forwarded, and the loop ended.
C28_Witness ==
  /\ reader.pc = "exited"
  /\ reader.cause = "detached"
  /\ reader.forwarded > 0
  /\ reader.exits = ExitPath

\* close(r.done) was executed with done closed: the panic of removePlayer
\* that leaves no player (the other panics leave players).
ClosedTwice == crashed /\ done /\ DOMAIN players = {}

\* C29: done is closed at most once in every interleaving of the message
\* loop and the removal goroutines of sendTo, also by removals executed
\* after the room was closed.
C29_DoneClosedOnce == ~ClosedTwice

\* What does hold: done is not closed twice by one handler or goroutine; the
\* second close is made by a step that began with done closed.
C29_OnlyAfterClosure == [][(ClosedTwice' /\ ~ClosedTwice) => done]_vars

\* C30: once done is closed, the message loop dispatches no further message:
\* no step other than a removal goroutine changes the members, the master or
\* the properties of a closed room.
C30_NoDispatchAfterClose ==
  [][(done /\ ~RemovalStep) =>
       UNCHANGED <<clients, players, watchers, master, masterOrder, lastMsg,
                   publicProps, privateProps, info, deadline>>]_vars

\* What does hold: with done closed the loop can always take the done case
\* and end, as long as no message is half dispatched and no panic occurred.
C30_CanExit == (done /\ Running /\ ~recv.some) => ENABLED MsgLoopExit

\* The indices of the close frames in the frames written.
CloseFrames == {i \in 1..Len(socket) : socket[i].type = "close"}

\* C31: once the closed flag of a Peer is set nothing more is written to its
\* socket: the Peer writes at most one close frame and no data frame after
\* it, in every interleaving of the methods that write.
C31_NothingAfterClose ==
  /\ [](Cardinality(CloseFrames) <= 1)
  /\ [](\A i \in CloseFrames : i = Len(socket))
  /\ [](CloseFrames # {} => peer.closed)
  /\ [][peer.closed => socket' = socket]_vars

\* A Peer wrote the ready frame and an event and then its close frame, on
\* Close.
C31_Witness ==
  /\ peer.closed
  /\ peer.closeCode = "CloseNormalClosure"
  /\ Len(socket) >= 3
  /\ CloseFrames = {Len(socket)}
  /\ socket[1].type = "ready"
  /\ socket[2].type = "event"

NewEvPong(cid) == Ev("EvPong", 0, cid, NoID, "", << >>)

NewEvClientProp(cid, payload) == Ev("EvClientProp", 0, cid, NoID, payload, << >>)

\* msgPing: the EvPong goes to the sender's SendSystemEvent.
msgPing(st, c) ==
  RUnlock(
    LET sl == RLock(st) IN
    IF ~IsCurrent(sl, c)
    THEN sl
    ELSE [Produce(sl, NewEvPong(IDOf(sl, c))) EXCEPT
            !.out[c] = Append(@, NewEvPong(IDOf(sl, c)))])

msgToMaster(st, c, data, F) ==
  RUnlock(
    LET sl == RLock(st) IN
    IF ~IsCurrent(sl, c)
    THEN sl
    ELSE sendTo(sl, sl.master, NewEvMessage(IDOf(sl, c), data), F))

\* msgClientProp; the props of the Client itself are not part of the room.
msgClientProp(st, c, seq, payload, F) ==
  RUnlock(
    LET sl == RLock(st) IN
    IF ~sl.clients[c].isPlayer
    THEN sendTo(sl, c, NewEvPermissionDenied(seq, payload), F)
    ELSE IF ~(IDOf(sl, c) \in DOMAIN sl.players /\ sl.players[IDOf(sl, c)] = c)
    THEN sl
    ELSE broadcast(sendTo(sl, c, NewEvSucceeded(seq), F),
                   NewEvClientProp(IDOf(sl, c), payload), F))

\* The Client c is not the one registered under its id: a rejoin replaced it
\* or it was removed.
Stale(c) ==
  LET id == clients[c].id IN
    IF clients[c].isPlayer
    THEN ~(id \in DOMAIN players /\ players[id] = c)
    ELSE ~(id \in DOMAIN watchers /\ watchers[id] = c)

\* What of the room a request can change, and the events it sends.
Occupancy(st) ==
  <<st.players, st.watchers, st.master, st.masterOrder, st.lastMsg, st.info, st.clients,
    st.done, st.crashed>>

NoEffect(st, base) == Occupancy(st) = Occupancy(base) /\ st.out = NoOut /\ st.pending = base.pending

\* A removal that names the stale Client c removes nobody and sends nothing.
StaleRemovals(c) ==
  LET base == Base(clients[c].id) IN
    /\ NoEffect(msgLeave(base, c, "leave", {}), base)
    /\ NoEffect(msgClientError(base, c, "error", {}), base)
    /\ NoEffect(msgClientTimeout(base, c, {}), base)
    /\ c \in pending =>
         NoEffect(sendToRemoval(BaseRemove(c), c, {}), BaseRemove(c))

\* Ping, Targets, ToMaster and Broadcast of the stale Client c send nothing.
StaleMessages(c) ==
  LET base == Base(clients[c].id) IN
    /\ NoEffect(msgPing(base, c), base)
    /\ \A seq \in MsgSeqs, t \in TargetLists, d \in DataSet :
         NoEffect(msgTargets(base, c, seq, t, d, {}), base)
    /\ \A d \in DataSet :
         /\ NoEffect(msgToMaster(base, c, d, {}), base)
         /\ NoEffect(msgBroadcast(base, c, d, {}), base)

\* C32 as stated: a request that names a Client that is no longer the one
\* registered under its id removes nobody, broadcasts no EvLeft and sends
\* nothing, ClientProp included.
C32_Original ==
  \A c \in 1..Len(clients) :
    (ClientMsg(c) /\ Stale(c)) =>
      /\ StaleRemovals(c)
      /\ StaleMessages(c)
      /\ \A seq \in MsgSeqs :
           NoEffect(msgClientProp(Base(clients[c].id), c, seq, "props", {}),
                    Base(clients[c].id))

\* C32: the same, but a ClientProp of a stale watcher is answered with
\* EvPermissionDenied to that stale Client, and to nobody else; the room is
\* as updateLastMsg left it.
C32_StaleClient ==
  \A c \in 1..Len(clients) :
    (ClientMsg(c) /\ Stale(c)) =>
      /\ StaleRemovals(c)
      /\ StaleMessages(c)
      /\ \A seq \in MsgSeqs :
           LET base == Base(clients[c].id)
               st == msgClientProp(base, c, seq, "props", {})
           IN IF clients[c].isPlayer
              THEN NoEffect(st, base)
              ELSE /\ Occupancy(st) = Occupancy(base)
                   /\ st.out = [NoOut EXCEPT ![c] = <<NewEvPermissionDenied(seq, "props")>>]

\* A player that a rejoin replaced and a watcher that was removed, while the
\* loop dispatches, with a removal goroutine of the replaced player waiting.
C32_Witness ==
  /\ Running
  /\ \E c \in 1..Len(clients) :
       /\ clients[c].isPlayer
       /\ clients[c].id \in DOMAIN players
       /\ players[clients[c].id] # c
       /\ c \in pending
       /\ ClientMsg(c)
  /\ \E w \in 1..Len(clients) : ~clients[w].isPlayer /\ Stale(w) /\ ClientMsg(w)

\* The publisher waits in its select with no notification left.
PublisherIdle == updater.pc = "select" /\ chRoomInfo = 0

\* C33: while the room is not done and connections to the database are
\* obtained in the end, the most recent RoomInfo that updateRoomInfo stored
\* is written in the end: no update is lost by the coalescing, and the last
\* write made after the updates stop carries the RoomInfo of the last update.
C33_LastUpdateWritten ==
  /\ [](PublisherIdle => updater.written = lastRoomInfo)
  /\ \A v \in 1..MaxUpdates :
       (lastRoomInfo = v /\ ~done) ~> (updater.written = v \/ lastRoomInfo > v \/ done)
  /\ []((lastRoomInfo = MaxUpdates /\ ~done)
          => <>((PublisherIdle /\ updater.written = MaxUpdates) \/ done))

\* All updates of the run were made, fewer writes than updates, and the last
\* write carries the last update while the room is not done.
C33_Witness ==
  /\ ~done
  /\ lastRoomInfo = MaxUpdates
  /\ updater.written = MaxUpdates
  /\ updater.writes < MaxUpdates
  /\ PublisherIdle

====
